---- MODULE Spec2Model ----
(***************************************************************************)
(* Migration orchestration engine of zcs-to-zcs-migration: the session     *)
(* ledger (SessionManager), the static partitioning of the account list    *)
(* (ZimbraMigrator.run_migration), and the worker passes                   *)
(* (MigrationWorker) over the transfer operations of BackupManager.        *)
(*                                                                         *)
(* Strings are sequences of tokens; a token stands for one character or    *)
(* for a run of characters that no operation of the program looks into.    *)
(***************************************************************************)
EXTENDS Integers, Sequences, FiniteSets, TLC

VARIABLES
    \* ---- run_migration's slicing (SpecPartition)
    p_accounts,     \* the account list handed to run_migration
    p_threads,      \* num_threads
    p_i,            \* loop variable of `for i in range(num_threads)`
    p_batches,      \* the `accounts` of the workers created so far, in order
    p_pc,           \* "start" | "loop" | "joined"
    \* ---- the session ledger (SessionManager)
    session_file,   \* [exists, text]: the session file and its characters
    io,             \* [read_ok, append_ok, cutover_ok]: whether the reads and the appends of
                    \* the session file made by the last step succeeded
    entries,        \* history: the (account_mail, information) of every append made
    ck,             \* the last check_session call: its arguments and its result
    \* ---- a run of the tool (ZimbraMigrator.main, run_migration, MigrationWorker)
    opts,           \* do_ldiff, do_full, do_incr, inc_date, store_index of the run
    workers,        \* the MigrationWorker threads: accounts, position, index
    acct,           \* the phase flags of each Account object of the run
    backup_exists,  \* disk: the full-backup archive {mail}.tgz of each account
    incr_file,      \* disk: the incremental archive of each account:
                    \* "missing" | "empty" (size 0) | "data"
    cutover,        \* history: the cutover commands run for each account
    calls,          \* history: the external calls of this run and what each reported
    ever_ok,        \* history: the external call has reported success in some run
    prev_ok,        \* history: in the run before this one, which ended on its own,
                    \*          export and import both reported success
    io_faults,      \* the number of reads and appends of the session file that
                    \* have failed in the runs so far
    \* ---- threads inside record_session and check_session (SpecAppend)
    lock,           \* SessionManager.lock: 0 when free, else the thread holding it
    writers,        \* each writer thread: its position in record_session, the
                    \* line it writes, whether its append failed
    reader,         \* the reader thread: its position in check_session and the
                    \* characters its last read returned
    \* ---- two runs side by side (SpecFlags)
    twin,           \* the options, the ledger and the loop position the two
                    \* runs share, and for each run its Account flags, its
                    \* calls, its appended entries and its files
    \* ---- one backup operation of BackupManager (SpecVerify)
    curl,           \* the operation, what it was called on, the exit status and
                    \* the output of its command, and what it reported
    \* ---- one LDIFF file of an account (SpecLdiff)
    ldif,           \* the exported text, the target store and the text after the change
    \* ---- the full-backup archive of one account (SpecDate)
    archive,        \* whether it exists, its modification time and the date
                    \* get_last_full_date returned
    \* ---- the web application (SpecWeb)
    web             \* migration_state['status'], the start requests under way
                    \* and the runs started, each with its workers

partVars == <<p_accounts, p_threads, p_i, p_batches, p_pc>>
ledgerVars == <<session_file, io, entries>>

runVars == <<opts, workers, acct, backup_exists, incr_file, cutover, calls, ever_ok,
            prev_ok, io_faults>>

appendVars == <<lock, writers, reader>>

vars == <<partVars, ledgerVars, ck, runVars, appendVars, twin, curl, ldif, archive, web>>

\* what the actions of each specification leave alone
PartRest == <<ledgerVars, ck, runVars, appendVars, twin, curl, ldif, archive, web>>
LedgerRest == <<partVars, runVars, appendVars, twin, curl, ldif, archive, web>>
RunRest == <<partVars, ck, appendVars, twin, curl, ldif, archive, web>>
AppendRest == <<partVars, ck, runVars, twin, curl, ldif, archive, web>>
TwinRest == <<partVars, ledgerVars, ck, runVars, appendVars, curl, ldif, archive, web>>
CurlRest == <<partVars, ledgerVars, ck, runVars, appendVars, twin, ldif, archive, web>>
LdifRest == <<partVars, ledgerVars, ck, runVars, appendVars, twin, curl, archive, web>>
ArchiveRest == <<partVars, ledgerVars, ck, runVars, appendVars, twin, curl, ldif, web>>
WebRest == <<partVars, ledgerVars, ck, runVars, appendVars, twin, curl, ldif, archive>>

-----------------------------------------------------------------------------
(* Bounds *)

\* longest account list handed to run_migration in SpecPartition
MaxListLen == 7
\* largest thread count in SpecPartition
MaxPoolSize == 4
\* most lines the session file gets in SpecLedger
MaxLines == 2
\* accounts in the list of the run of SpecRun
NumAccounts == 2
\* largest thread count of the run of SpecRun
MaxThreads == 2
\* accounts in the list of the repeated runs of Spec
NumRerunAccounts == 1
\* largest thread count of the repeated runs of Spec
MaxRerunThreads == 1
\* most reads and appends of the session file that fail in a behaviour of
\* Spec or of SpecRun
MaxFaults == 1
\* threads calling record_session in SpecAppend
MaxWriters == 2
\* accounts in the list of the run of SpecTypes
NumTypeAccounts == 1
\* largest thread count of the run of SpecTypes
MaxTypeThreads == 1
\* accounts in the list of the two runs of SpecFlags
NumTwinAccounts == 1
\* most pieces of a command's output in SpecVerify
MaxOutputLen == 3
\* most lines of an LDIFF file in SpecLdiff
MaxLdiffLines == 3
\* years in a row, from 2023 on, an archive of SpecDate may date from
NumYears == 3
\* accounts loaded into the web application in SpecWeb
NumWebAccounts == 2

-----------------------------------------------------------------------------
(* Generic helpers *)

Range(s) == {s[i] : i \in 1..Len(s)}

RECURSIVE Concat(_)
Concat(ss) == IF ss = <<>> THEN <<>> ELSE Head(ss) \o Concat(Tail(ss))

Max(S) == CHOOSE x \in S : \A y \in S : y <= x

Abs(x) == IF x < 0 THEN -x ELSE x

Min2(x, y) == IF x <= y THEN x ELSE y

\* Python's s[start:end] for 0 <= start, 0 <= end: both ends are clamped to
\* the length, and the slice is empty when start >= end.
Slice(s, start, end) ==
    LET lo == Min2(start, Len(s))
        hi == Min2(end, Len(s))
    IN  [k \in 1..(IF hi > lo THEN hi - lo ELSE 0) |-> s[lo + k]]

-----------------------------------------------------------------------------
(* Strings                                                                 *)

SEP == ";"
NL == "\n"
Whitespace == {" ", "\t", NL}

\* str.startswith
StartsWith(s, prefix) ==
    /\ Len(prefix) <= Len(s)
    /\ SubSeq(s, 1, Len(prefix)) = prefix

\* str.split(sep): the pieces between the separators, at least one piece
RECURSIVE Split(_, _)
Split(s, sep) ==
    IF \A i \in 1..Len(s) : s[i] # sep
    THEN <<s>>
    ELSE LET k == CHOOSE i \in 1..Len(s) :
                      s[i] = sep /\ \A j \in 1..(i - 1) : s[j] # sep
         IN  <<SubSeq(s, 1, k - 1)>> \o Split(SubSeq(s, k + 1, Len(s)), sep)

\* str.strip(): without its leading and trailing whitespace
RECURSIVE Strip(_)
Strip(s) ==
    IF s = <<>> THEN s
    ELSE IF Head(s) \in Whitespace THEN Strip(Tail(s))
    ELSE IF s[Len(s)] \in Whitespace THEN Strip(SubSeq(s, 1, Len(s) - 1))
    ELSE s

\* `for line in f`: the lines of a text; a text that ends with a newline has
\* no empty last line
FileLines(text) ==
    LET pieces == Split(text, NL)
    IN  IF pieces[Len(pieces)] = <<>>
        THEN SubSeq(pieces, 1, Len(pieces) - 1)
        ELSE pieces

-----------------------------------------------------------------------------
(* Addresses, phase tags and dates                                         *)

AllMails == <<"u1@src", "u2@src", "u3@src", "u4@src", "u5@src">>

FULL_EXPORT == <<"FULL-", "EXPORT">>
FULL_IMPORT == <<"FULL-", "IMPORT">>
INCR_EXPORT == <<"INCR-", "EXPORT">>
INCR_IMPORT == <<"INCR-", "IMPORT">>

\* a date in MM/DD/YYYY form: no operation of the ledger looks into it
ADate == <<"03/14/2024">>

\* an information string that carries the tag FULL-IMPORT for every phase
Information_ImportTag(tag, date) == FULL_IMPORT \o <<SEP>> \o date

\* f"FULL-EXPORT;{last_full_date}" and its like
Information(tag, date) == tag \o <<SEP>> \o date

-----------------------------------------------------------------------------
(* SessionManager                                                          *)

NoSessionFile == [exists |-> FALSE, text |-> <<>>]

\* SessionLine without the line terminator
SessionLine_NoNewline(account_mail, information) ==
    account_mail \o <<SEP>> \o information

\* f"{account_mail};{information}\n"
SessionLine(account_mail, information) ==
    account_mail \o <<SEP>> \o information \o <<NL>>

\* RecordSession opening the file with 'w': the line replaces the content
RecordSession_Truncate(file, appendable, account_mail, information) ==
    IF appendable
    THEN [exists |-> TRUE, text |-> SessionLine(account_mail, information)]
    ELSE file

\* RecordSession whose failed append leaves the account's mail in the file
RecordSession_Torn(file, appendable, account_mail, information) ==
    IF appendable
    THEN [exists |-> TRUE,
          text |-> file.text \o SessionLine(account_mail, information)]
    ELSE [file EXCEPT !.text = @ \o account_mail]

\* RecordSession writing the line at the head of the file
RecordSession_Prepend(file, appendable, account_mail, information) ==
    IF appendable
    THEN [exists |-> TRUE,
          text |-> SessionLine(account_mail, information) \o file.text]
    ELSE file

\* record_session: the file after the call; open(..., 'a') creates a missing
\* file, and a failure to open or write is logged and leaves the file as it is
RecordSession(file, appendable, account_mail, information) ==
    IF appendable
    THEN [exists |-> TRUE,
          text |-> file.text \o SessionLine(account_mail, information)]
    ELSE file

\* CheckLines that does not look at the session type
CheckLines_AnyTag(text, account_mail, session_type) ==
    \E n \in 1..Len(FileLines(text)) :
        LET parts == Split(Strip(FileLines(text)[n]), SEP)
        IN  /\ Len(parts) >= 2
            /\ parts[1] = account_mail

\* CheckLines comparing the second field with == instead of startswith
CheckLines_ExactTag(text, account_mail, session_type) ==
    \E n \in 1..Len(FileLines(text)) :
        LET parts == Split(Strip(FileLines(text)[n]), SEP)
        IN  /\ Len(parts) >= 2
            /\ parts[1] = account_mail
            /\ parts[2] = session_type

\* the loop of check_session over the lines of the file
CheckLines(text, account_mail, session_type) ==
    \E n \in 1..Len(FileLines(text)) :
        LET parts == Split(Strip(FileLines(text)[n]), SEP)
        IN  /\ Len(parts) >= 2
            /\ parts[1] = account_mail
            /\ StartsWith(parts[2], session_type)

\* check_session that finds no entry in any file
CheckSession_NeverFound(file, readable, account_mail, session_type) == FALSE

\* check_session: False for a missing file, False when reading raises
CheckSession(file, readable, account_mail, session_type) ==
    IF ~file.exists THEN FALSE
    ELSE IF ~readable THEN FALSE
    ELSE CheckLines(file.text, account_mail, session_type)

\* CheckSessionRaises of a check_session that reads the file outside `try`
CheckSessionRaises_NoExcept(file, readable) == file.exists /\ ~readable

\* check_session: whether the call ends with an exception. A missing file
\* returns before anything is opened; open() and the loop over the lines sit
\* in `try`, and `except Exception` logs what they raise.
CheckSessionRaises(file, readable) ==
    IF ~file.exists THEN FALSE
    ELSE IF ~readable THEN FALSE
    ELSE FALSE

-----------------------------------------------------------------------------
(* ZimbraMigrator.run_migration: the slice of worker i (0-based)           *)

\* ThreadAccounts with the last slice as short as the others
ThreadAccounts_NoRemainder(accts, num_threads, i) ==
    IF num_threads = 1 THEN accts
    ELSE LET accounts_per_thread == Len(accts) \div num_threads
             start_idx == i * accounts_per_thread
             end_idx == start_idx + accounts_per_thread
         IN  Slice(accts, start_idx, end_idx)

\* ThreadAccounts with the share of a thread rounded up
ThreadAccounts_CeilDiv(accts, num_threads, i) ==
    IF num_threads = 1 THEN accts
    ELSE LET accounts_per_thread == (Len(accts) + num_threads - 1) \div num_threads
             start_idx == i * accounts_per_thread
             end_idx == IF i < num_threads - 1
                        THEN start_idx + accounts_per_thread
                        ELSE Len(accts)
         IN  Slice(accts, start_idx, end_idx)

ThreadAccounts(accts, num_threads, i) ==
    IF num_threads = 1 THEN accts
    ELSE LET accounts_per_thread == Len(accts) \div num_threads
             start_idx == i * accounts_per_thread
             end_idx == IF i < num_threads - 1
                        THEN start_idx + accounts_per_thread
                        ELSE Len(accts)
         IN  Slice(accts, start_idx, end_idx)

-----------------------------------------------------------------------------
(* Account                                                               *)

\* the accounts of the run
Accounts == DOMAIN acct

\* the account list of a run, in the order it was loaded
AccountList == [a \in Accounts |-> a]

\* Account.mail
Mail(a) == <<AllMails[a]>>

\* the phase flags of a newly constructed Account
NewAccount ==
    [is_migrated |-> FALSE, is_exported |-> FALSE,
     is_incr_migrated |-> FALSE, is_incr_exported |-> FALSE,
     is_ldiff_exported |-> FALSE, is_ldiff_imported |-> FALSE]

NoDate == <<>>

\* Account.get_last_full_date: None without the archive, else the date
\* before its modification date
GetLastFullDate(archive_exists) ==
    IF ~archive_exists THEN NoDate ELSE ADate

-----------------------------------------------------------------------------
(* MigrationWorker: positions                                            *)

NoCalls == [a \in Accounts |-> [export |-> "none", import |-> "none",
                                incr_export |-> "none", incr_import |-> "none",
                                ldiff_export |-> "none", ldiff_import |-> "none"]]

\* a worker that has left run(): normally, or through its `except`
Ended(w) == workers[w].at \in {"exit", "failed"}

RunOver == \A w \in 1..Len(workers) : Ended(w)

\* ZimbraMigrator.store_destinations
StoreDestinations == <<"test">>

\* `self.store_destinations[self.store_index]` raises IndexError: a Python
\* list of length n holds the indexes -n .. n-1
NoSuchStore(o) ==
    /\ StoreDestinations # <<>>
    /\ ~(-Len(StoreDestinations) <= o.store_index
         /\ o.store_index < Len(StoreDestinations))

\* target_store of _process_ldiff
NoStore == "None"
TargetStore(o) ==
    IF StoreDestinations = <<>> THEN NoStore
    ELSE IF o.store_index >= 0
         THEN StoreDestinations[o.store_index + 1]
         ELSE StoreDestinations[Len(StoreDestinations) + o.store_index + 1]

\* the keys of the dictionaries returned by _get_source_ldap_config and
\* _get_dest_ldap_config
SourceLdapConfig == {}
DestLdapConfig == {}

\* the keys export_ldiff and import_ldiff read from their ldap_config
ExportLdiffKeys ==
    {"ldap_protocol", "ldap_host", "ldap_port", "ldap_user", "ldap_pass"}
ImportLdiffKeys == {"ldap_host", "ldap_port", "ldap_user", "ldap_pass"}

\* FirstPass of a run() that turns to the incremental migration first
FirstPass_IncrFirst(o, accts) ==
    IF accts = <<>> THEN "exit"
    ELSE IF o.do_incr THEN "incr_export"
    ELSE IF o.do_full THEN "full_export"
    ELSE "exit"

\* run(): the first pass of a worker; _process_ldiff computes target_store
\* before its loop
FirstPass(o, accts) ==
    IF o.do_ldiff /\ NoSuchStore(o) THEN "failed"
    ELSE IF accts = <<>> THEN "exit"
    ELSE IF o.do_ldiff THEN "ldiff"
    ELSE IF o.do_full THEN "full_export"
    ELSE IF o.do_incr THEN "incr_export"
    ELSE "exit"

\* run() and the two loops of each _process_*: the pass after a finished one
PassAfter(o, at) ==
    CASE at = "ldiff" ->
             IF o.do_full THEN "full_export"
             ELSE IF o.do_incr THEN "incr_export" ELSE "exit"
      [] at = "full_export" -> "full_import"
      [] at = "full_import" -> IF o.do_incr THEN "incr_export" ELSE "exit"
      [] at = "incr_export" -> "incr_import"
      [] OTHER -> "exit"

\* Advance for one loop per type that exports and imports an account before
\* it turns to the next one
Advance_PerAccount(wk, o) ==
    IF wk.at \in {"full_export", "incr_export"}
    THEN [wk EXCEPT !.at = PassAfter(o, wk.at)]
    ELSE IF wk.at \in {"full_import", "incr_import"} /\ wk.idx < Len(wk.accounts)
    THEN [wk EXCEPT !.at = IF wk.at = "full_import" THEN "full_export"
                                                   ELSE "incr_export",
                    !.idx = wk.idx + 1]
    ELSE IF wk.idx < Len(wk.accounts)
    THEN [wk EXCEPT !.idx = wk.idx + 1]
    ELSE [wk EXCEPT !.at = PassAfter(o, wk.at), !.idx = 1]

\* Advance for a loop that stays at the account it has just processed
Advance_SameAccount(wk, o) == wk

\* the worker after the iteration it is in: the next account of the loop,
\* or the first account of the next pass
Advance(wk, o) ==
    IF wk.idx < Len(wk.accounts)
    THEN [wk EXCEPT !.idx = wk.idx + 1]
    ELSE [wk EXCEPT !.at = PassAfter(o, wk.at), !.idx = 1]

\* the account a worker is at
Current(w) == workers[w].accounts[workers[w].idx]

-----------------------------------------------------------------------------
(* The variables of the parts a specification does not use                *)

IoOk == [read_ok |-> TRUE, append_ok |-> TRUE,
            cutover_ok |-> TRUE]

NoCheck == [done |-> FALSE, mail |-> <<>>, type |-> <<>>, result |-> FALSE,
            raised |-> FALSE]

LedgerIdle ==
    /\ session_file = NoSessionFile
    /\ io = IoOk
    /\ entries = <<>>
    /\ ck = NoCheck

PartIdle ==
    /\ p_accounts = <<>>
    /\ p_threads = 1
    /\ p_i = 0
    /\ p_batches = <<>>
    /\ p_pc = "joined"

AppendIdle ==
    /\ lock = 0
    /\ writers = <<>>
    /\ reader = [pc |-> "idle", seen |-> <<>>]

NoOpts == [do_ldiff |-> FALSE, do_full |-> FALSE, do_incr |-> FALSE,
           inc_date |-> NoDate, store_index |-> 0]

NoCurl == [pc |-> "idle", op |-> "none", ran |-> FALSE, launched |-> FALSE,
           returncode |-> 0, output |-> <<>>, reported |-> "nothing",
           flag |-> FALSE, recorded |-> FALSE]

NoLdif == [pc |-> "none", text |-> <<>>, target_store |-> "", modified |-> <<>>]

NoMtime == [year |-> 1970, month |-> 1, day |-> 1, hour |-> 0]
NoArchive == [pc |-> "idle", exists |-> FALSE, mtime |-> NoMtime,
              last_full_date |-> <<>>]

NoWeb == [status |-> "idle", handlers |-> 0, runs |-> <<>>]

NoTwin == [opts |-> NoOpts,
           wk |-> [accounts |-> <<>>, at |-> "idle", idx |-> 1],
           ledger0 |-> {},
           x |-> <<>>]

\* before the first run over n accounts: an empty working directory
RunIdle(n) ==
    /\ opts = NoOpts
    /\ workers = <<>>
    /\ acct = [a \in 1..n |-> NewAccount]
    /\ backup_exists = [a \in 1..n |-> FALSE]
    /\ incr_file = [a \in 1..n |-> "missing"]
    /\ cutover = [a \in 1..n |-> 0]
    /\ calls = [a \in 1..n |-> [export |-> "none", import |-> "none",
                                incr_export |-> "none", incr_import |-> "none",
                                ldiff_export |-> "none", ldiff_import |-> "none"]]
    /\ ever_ok = [a \in 1..n |-> [export |-> FALSE, import |-> FALSE]]
    /\ prev_ok = [a \in 1..n |-> "no"]
    /\ io_faults = 0

-----------------------------------------------------------------------------
(* SpecPartition: run_migration creating its workers                       *)

\* main() and start_migration() refuse an empty account list, so the list
\* run_migration gets has at least one account.
PartInit ==
    /\ web = NoWeb
    /\ archive = NoArchive
    /\ ldif = NoLdif
    /\ curl = NoCurl
    /\ twin = NoTwin
    /\ LedgerIdle
    /\ RunIdle(0)
    /\ AppendIdle
    /\ p_accounts \in {[k \in 1..n |-> k] : n \in 1..MaxListLen}
    /\ p_threads \in 1..MaxPoolSize
    /\ p_i = 0
    /\ p_batches = <<>>
    /\ p_pc = "start"

\* `if num_threads == 1`: one worker over the whole list, run synchronously
PartSingle ==
    /\ p_pc = "start"
    /\ p_threads = 1
    /\ p_batches' = <<ThreadAccounts(p_accounts, p_threads, 0)>>
    /\ p_pc' = "joined"
    /\ UNCHANGED <<p_accounts, p_threads, p_i, PartRest>>

\* `else`: enter the loop
PartEnterLoop ==
    /\ p_pc = "start"
    /\ p_threads # 1
    /\ p_pc' = "loop"
    /\ UNCHANGED <<p_accounts, p_threads, p_i, p_batches, PartRest>>

\* one iteration of `for i in range(num_threads)`
PartCreateWorker ==
    /\ p_pc = "loop"
    /\ p_i < p_threads
    /\ p_batches' = Append(p_batches, ThreadAccounts(p_accounts, p_threads, p_i))
    /\ p_i' = p_i + 1
    /\ UNCHANGED <<p_accounts, p_threads, p_pc, PartRest>>

\* the loop is over; the workers are joined
PartJoin ==
    /\ p_pc = "loop"
    /\ p_i = p_threads
    /\ p_pc' = "joined"
    /\ UNCHANGED <<p_accounts, p_threads, p_i, p_batches, PartRest>>

PartNext == PartSingle \/ PartEnterLoop \/ PartCreateWorker \/ PartJoin

SpecPartition == PartInit /\ [][PartNext]_vars

-----------------------------------------------------------------------------
(* Claims about the partitioning                                           *)

BatchSizes == {Len(p_batches[w]) : w \in 1..Len(p_batches)}

\* C5: once the workers are created, there is one slice per thread, the
\* slices concatenated in worker order are the account list (so they are
\* contiguous, disjoint, and every account is in exactly one of them),
\* and the last slice holds what the equal shares leave over.
C5_PartitionCoverage ==
    p_pc = "joined" =>
        /\ Len(p_batches) = p_threads
        /\ Concat(p_batches) = p_accounts
        /\ \A a \in Range(p_accounts) :
               Cardinality({w \in 1..Len(p_batches) : a \in Range(p_batches[w])}) = 1
        /\ Len(p_batches[p_threads]) =
               Len(p_accounts) - (p_threads - 1) * (Len(p_accounts) \div p_threads)

C5_Witness ==
    /\ p_pc = "joined"
    /\ p_threads = 3
    /\ Len(p_accounts) = 7
    /\ Len(p_batches[3]) = 3

\* C6 as stated: the sizes of any two workers' batches differ by at most
\* the largest batch size minus one, for every list and thread count.
C6_BalanceAsStated ==
    p_pc = "joined" =>
        \A v, w \in 1..Len(p_batches) :
            v # w => Abs(Len(p_batches[v]) - Len(p_batches[w])) <= Max(BatchSizes) - 1

\* C6: for lists at least as long as the thread count (then no batch is
\* empty), the sizes of any two workers' batches differ by at most the
\* largest batch size minus one.
C6_BalanceNonEmpty ==
    (p_pc = "joined" /\ Len(p_accounts) >= p_threads) =>
        \A v, w \in 1..Len(p_batches) :
            v # w => Abs(Len(p_batches[v]) - Len(p_batches[w])) <= Max(BatchSizes) - 1

C6_Witness ==
    /\ p_pc = "joined"
    /\ p_threads = 4
    /\ Len(p_accounts) = 7
    /\ Len(p_batches[1]) = 1
    /\ Len(p_batches[4]) = 4

-----------------------------------------------------------------------------
(* SpecLedger: calls of record_session and check_session on one file       *)

\* the addresses, informations and session types of the calls
LedgerMails == {<<AllMails[1]>>, <<AllMails[2]>>, <<AllMails[1], ".bak">>}
LedgerInformations ==
    {Information(FULL_EXPORT, ADate), Information(FULL_IMPORT, ADate)}
LedgerTypes ==
    {FULL_EXPORT, FULL_IMPORT, INCR_EXPORT, <<"FULL-">>,
     Information(FULL_EXPORT, ADate)}

LedgerInit ==
    /\ web = NoWeb
    /\ archive = NoArchive
    /\ ldif = NoLdif
    /\ curl = NoCurl
    /\ twin = NoTwin
    /\ LedgerIdle
    /\ PartIdle
    /\ RunIdle(0)
    /\ AppendIdle

\* setup_environment: session_file.touch(exist_ok=True)
LSetup ==
    /\ ~session_file.exists
    /\ session_file' = [session_file EXCEPT !.exists = TRUE]
    /\ ck' = NoCheck
    /\ io' = IoOk
    /\ UNCHANGED <<entries, LedgerRest>>

\* a call of record_session; the append succeeds or fails
LRecord ==
    /\ Len(entries) < MaxLines
    /\ \E m \in LedgerMails, inf \in LedgerInformations, appendable \in BOOLEAN :
        /\ session_file' = RecordSession(session_file, appendable, m, inf)
        /\ entries' = IF appendable THEN Append(entries, <<m, inf>>) ELSE entries
        /\ io' = [read_ok |-> TRUE, append_ok |-> appendable,
            cutover_ok |-> TRUE]
    /\ ck' = NoCheck
    /\ UNCHANGED LedgerRest

\* a call of check_session; reading the file succeeds or fails
LCheck ==
    /\ \E m \in LedgerMails, t \in LedgerTypes, readable \in BOOLEAN :
        /\ ck' = [done |-> TRUE, mail |-> m, type |-> t,
                  result |-> CheckSession(session_file, readable, m, t),
                  raised |-> CheckSessionRaises(session_file, readable)]
        /\ io' = [read_ok |-> readable \/ ~session_file.exists, append_ok |-> TRUE,
            cutover_ok |-> TRUE]
    /\ UNCHANGED <<session_file, entries, LedgerRest>>

LedgerNext == LSetup \/ LRecord \/ LCheck

SpecLedger == LedgerInit /\ [][LedgerNext]_vars

\* the ledger holds an entry of the account whose information starts with p
\* the phase tag of a recorded information: what precedes its first ';'
PhaseTag(information) == Head(Split(information, SEP))

HoldsEntry(account_mail, p) ==
    \E n \in 1..Len(entries) :
        entries[n][1] = account_mail /\ StartsWith(PhaseTag(entries[n][2]), p)

\* C7 as stated: check_session(a, p) is True exactly when the ledger holds
\* an entry whose account is a and whose phase tag starts with p.
C7_PrefixMatchAsStated ==
    ck.done => (ck.result <=> HoldsEntry(ck.mail, ck.type))

\* C7: when reading the session file does not fail, check_session(a, p) is
\* True exactly when the ledger holds an entry whose account is a and whose
\* phase tag starts with p; so an only entry FULL-EXPORT;<date> of a makes
\* the FULL-EXPORT check of a True and its FULL-IMPORT check False, and
\* entries of other accounts change neither.
C7_PrefixMatch ==
    /\ (ck.done /\ io.read_ok) =>
           (ck.result <=> HoldsEntry(ck.mail, ck.type))
    /\ \A m \in LedgerMails :
        (/\ ck.done /\ io.read_ok /\ ck.mail = m
         /\ \E n \in 1..Len(entries) : entries[n][1] = m
         /\ \A n \in 1..Len(entries) :
                entries[n][1] = m => entries[n][2] = Information(FULL_EXPORT, ADate))
        => /\ ck.type = FULL_EXPORT => ck.result
           /\ ck.type = FULL_IMPORT => ~ck.result

\* a FULL-IMPORT check of an account finds nothing in a ledger that holds
\* its FULL-EXPORT entry and the FULL-IMPORT entry of another account
C7_Witness ==
    /\ ck.done /\ io.read_ok
    /\ ck.mail = <<AllMails[1]>>
    /\ ck.type = FULL_IMPORT
    /\ ~ck.result
    /\ Len(entries) = 2
    /\ entries[1] = <<<<AllMails[1]>>, Information(FULL_EXPORT, ADate)>>
    /\ entries[2] = <<<<AllMails[2]>>, Information(FULL_IMPORT, ADate)>>

\* C17: check_session never raises; it returns False for every account and
\* every prefix when the session file is missing, and False when reading the
\* file fails, whatever the file holds.
C17_CheckNeverRaises ==
    ck.done =>
        /\ ~ck.raised
        /\ ~session_file.exists => ~ck.result
        /\ ~io.read_ok => ~ck.result

\* a check whose read failed on a file that holds the entry it asks for
C17_Witness ==
    /\ ck.done
    /\ session_file.exists
    /\ ~io.read_ok
    /\ HoldsEntry(ck.mail, ck.type)
    /\ ~ck.result

-----------------------------------------------------------------------------
(* SpecAppend: threads of one pool inside record_session and              *)
(* check_session of the SessionManager they share. A line reaches the     *)
(* file in two pieces; a failed open writes nothing.                      *)

Writers == 1..MaxWriters

\* the reader, as a holder of the lock
ReaderId == MaxWriters + 1

AppendInformations ==
    {Information(FULL_EXPORT, ADate), Information(FULL_IMPORT, ADate)}

\* the first piece of a line that is being written, and the rest of it
FirstPiece(line) == SubSeq(line, 1, 2)
SecondPiece(line) == SubSeq(line, 3, Len(line))

\* the characters of the lines of a sequence of appends
RECURSIVE LinesOf(_)
LinesOf(es) ==
    IF es = <<>> THEN <<>>
    ELSE SessionLine(Head(es)[1], Head(es)[2]) \o LinesOf(Tail(es))

\* the setup of a run has touched the session file, or nothing has
AppendInit ==
    /\ web = NoWeb
    /\ archive = NoArchive
    /\ ldif = NoLdif
    /\ curl = NoCurl
    /\ twin = NoTwin
    /\ PartIdle
    /\ RunIdle(0)
    /\ session_file \in {NoSessionFile, [exists |-> TRUE, text |-> <<>>]}
    /\ io = IoOk
    /\ entries = <<>>
    /\ ck = NoCheck
    /\ lock = 0
    /\ writers = [w \in Writers |->
                    [pc |-> "idle", mail |-> <<AllMails[w]>>, information |-> <<>>,
                     failed |-> FALSE]]
    /\ reader = [pc |-> "idle", seen |-> <<>>]

\* threading.Lock without a holder is not held
CanAcquire_NoMutex(l) == TRUE

\* threading.Lock: acquired only when no thread holds it
CanAcquire(l) == l = 0

\* a worker starts the external command of its phase (export_full_backup,
\* import_full_backup, ...: _execute_command); the command may run for any
\* time, or for ever
ATransfer(w) ==
    /\ writers[w].pc = "idle"
    /\ writers' = [writers EXCEPT ![w].pc = "transfer"]
    /\ UNCHANGED <<lock, reader, ledgerVars, AppendRest>>

\* the command has returned: the worker calls
\* record_session(account_mail, information)
ACall(w) ==
    /\ writers[w].pc = "transfer"
    /\ \E information \in AppendInformations :
        writers' = [writers EXCEPT ![w].pc = "acquire",
                                   ![w].information = information]
    /\ UNCHANGED <<lock, reader, ledgerVars, AppendRest>>

\* `with self.lock:` of record_session
AAcquire(w) ==
    /\ writers[w].pc = "acquire"
    /\ CanAcquire(lock)
    /\ lock' = w
    /\ writers' = [writers EXCEPT ![w].pc = "open"]
    /\ UNCHANGED <<reader, ledgerVars, AppendRest>>

\* open() of a record_session that returns from its `except` with the lock
\* still held
AOpen_KeepsLockOnError(w) ==
    /\ writers[w].pc = "open"
    /\ \E appendable \in BOOLEAN :
        /\ io' = [read_ok |-> TRUE, append_ok |-> appendable,
            cutover_ok |-> TRUE]
        /\ IF appendable
           THEN /\ session_file' = [session_file EXCEPT !.exists = TRUE]
                /\ writers' = [writers EXCEPT ![w].pc = "write"]
           ELSE /\ writers' = [writers EXCEPT ![w].pc = "done",
                                              ![w].failed = TRUE]
                /\ UNCHANGED session_file
    /\ UNCHANGED <<lock, reader, entries, AppendRest>>

\* open(self.session_file, 'a'): creates a missing file; when it raises,
\* the `except` logs the error
AOpen(w) ==
    /\ writers[w].pc = "open"
    /\ \E appendable \in BOOLEAN :
        /\ io' = [read_ok |-> TRUE, append_ok |-> appendable,
            cutover_ok |-> TRUE]
        /\ IF appendable
           THEN /\ session_file' = [session_file EXCEPT !.exists = TRUE]
                /\ writers' = [writers EXCEPT ![w].pc = "write"]
           ELSE /\ writers' = [writers EXCEPT ![w].pc = "release",
                                              ![w].failed = TRUE]
                /\ UNCHANGED session_file
    /\ UNCHANGED <<lock, reader, entries, AppendRest>>

\* f.write(...): the first piece of the line reaches the file
AWrite(w) ==
    /\ writers[w].pc = "write"
    /\ session_file' = [session_file EXCEPT !.text =
           @ \o FirstPiece(SessionLine(writers[w].mail, writers[w].information))]
    /\ writers' = [writers EXCEPT ![w].pc = "flush"]
    /\ UNCHANGED <<lock, reader, io, entries, AppendRest>>

\* the file is closed: the rest of the line reaches the file
AFlush(w) ==
    /\ writers[w].pc = "flush"
    /\ session_file' = [session_file EXCEPT !.text =
           @ \o SecondPiece(SessionLine(writers[w].mail, writers[w].information))]
    /\ entries' = Append(entries, <<writers[w].mail, writers[w].information>>)
    /\ writers' = [writers EXCEPT ![w].pc = "release"]
    /\ UNCHANGED <<lock, reader, io, AppendRest>>

\* the end of `with self.lock:` of record_session
ARelease(w) ==
    /\ writers[w].pc = "release"
    /\ lock' = 0
    /\ writers' = [writers EXCEPT ![w].pc = "done"]
    /\ UNCHANGED <<reader, ledgerVars, AppendRest>>

\* check_session: `if not self.session_file.exists(): return False`
RExists ==
    /\ reader.pc = "idle"
    /\ reader' = [reader EXCEPT !.pc = IF session_file.exists THEN "acquire"
                                       ELSE "returned"]
    /\ UNCHANGED <<lock, writers, ledgerVars, AppendRest>>

\* `with self.lock:` of check_session
RAcquire ==
    /\ reader.pc = "acquire"
    /\ CanAcquire(lock)
    /\ lock' = ReaderId
    /\ reader' = [reader EXCEPT !.pc = "read"]
    /\ UNCHANGED <<writers, ledgerVars, AppendRest>>

\* the loop over the lines of the file; a read that raises returns nothing
RRead ==
    /\ reader.pc = "read"
    /\ \E readable \in BOOLEAN :
        /\ io' = [read_ok |-> readable, append_ok |-> TRUE,
            cutover_ok |-> TRUE]
        /\ reader' = [pc |-> "release",
                      seen |-> IF readable THEN session_file.text ELSE <<>>]
    /\ UNCHANGED <<lock, writers, session_file, entries, AppendRest>>

\* the end of `with self.lock:` of check_session
RRelease ==
    /\ reader.pc = "release"
    /\ lock' = 0
    /\ reader' = [reader EXCEPT !.pc = "returned"]
    /\ UNCHANGED <<writers, ledgerVars, AppendRest>>

\* check_session has returned; the worker calls it again later
RReturn ==
    /\ reader.pc = "returned"
    /\ reader' = [reader EXCEPT !.pc = "idle"]
    /\ UNCHANGED <<lock, writers, ledgerVars, AppendRest>>

AppendNext ==
    \/ \E w \in Writers :
        \/ ATransfer(w)
        \/ ACall(w)
        \/ AAcquire(w)
        \/ AOpen(w)
        \/ AWrite(w)
        \/ AFlush(w)
        \/ ARelease(w)
    \/ RExists
    \/ RAcquire
    \/ RRead
    \/ RRelease
    \/ RReturn

SpecAppend == AppendInit /\ [][AppendNext]_vars

\* the writers whose call has returned and whose append did not fail
Appended == {w \in Writers : writers[w].pc = "done" /\ ~writers[w].failed}

\* C9: once the record_session calls of the workers have returned, the
\* ledger is the sequence of the complete lines of the calls whose append
\* did not fail, one line for each, in some order and with nothing between
\* or inside them; and what a reader gets from the file is always a
\* sequence of complete lines of such calls.
C9_AtomicAppends ==
    /\ (\A w \in Writers : writers[w].pc = "done") =>
            /\ session_file.text = LinesOf(entries)
            /\ Len(entries) = Cardinality(Appended)
            /\ \A w \in Appended :
                   \E n \in 1..Len(entries) :
                       entries[n] = <<writers[w].mail, writers[w].information>>
    /\ \E k \in 0..Len(entries) : reader.seen = LinesOf(SubSeq(entries, 1, k))

\* two appends were made while others waited for the lock, and the reader
\* read the file between them
C9_Witness ==
    /\ \A w \in Writers : writers[w].pc = "done"
    /\ Cardinality(Appended) >= 2
    /\ reader.seen # <<>>
    /\ reader.seen # session_file.text

-----------------------------------------------------------------------------
(* A run of the tool: main(), run_migration, the passes of the workers    *)

\* main(): setup_environment touches the session file, the accounts are
\* loaded anew, run_migration slices the list and starts the workers
StartRun(o, num_threads) ==
    /\ RunOver
    /\ session_file' = [session_file EXCEPT !.exists = TRUE]
    /\ io' = IoOk
    /\ opts' = o
    /\ workers' = [i \in 1..num_threads |->
                     LET accts == ThreadAccounts(AccountList, num_threads, i - 1)
                     IN  [accounts |-> accts, at |-> FirstPass(o, accts), idx |-> 1]]
    /\ acct' = [a \in Accounts |-> NewAccount]
    /\ prev_ok' = [a \in Accounts |->
                     IF workers # <<>> /\ calls[a].export = "ok" /\ calls[a].import = "ok"
                     THEN IF /\ HoldsEntry(Mail(a), FULL_EXPORT)
                             /\ HoldsEntry(Mail(a), FULL_IMPORT)
                          THEN "recorded"
                          ELSE "ok"
                     ELSE "no"]
    /\ calls' = NoCalls
    /\ UNCHANGED <<entries, backup_exists, incr_file, cutover, ever_ok, io_faults,
                   RunRest>>

\* RecordIfDated that never appends
RecordIfDated_Skipped(a, tag, date, appendable) ==
    UNCHANGED <<session_file, entries>>

\* record_session(account.mail, f"{tag};{date}") when the date is not None
RecordIfDated(a, tag, date, appendable) ==
    IF date # NoDate
    THEN /\ session_file' = RecordSession(session_file, appendable, Mail(a),
                                          Information(tag, date))
         /\ entries' = IF appendable
                       THEN Append(entries, <<Mail(a), Information(tag, date)>>)
                       ELSE entries
    ELSE /\ ~appendable
         /\ UNCHANGED <<session_file, entries>>

\* ReturnedTrue of a worker that records whatever the call returned
ReturnedTrue_Always(out) == TRUE

\* `if self.backup_manager.export_full_backup(account):` and the same test
\* of import_full_backup: the call returned True
ReturnedTrue(out) == out = "ok"

\* whether a step's ledger I/O went through: a read is attempted when the
\* file exists, an append when `attempted` says so
IoOf(readable, attempted, appendable) ==
    [read_ok |-> readable \/ ~session_file.exists,
     append_ok |-> appendable \/ ~attempted,
            cutover_ok |-> TRUE]

\* the failures among the ledger I/O of a step
Failures(x) ==
    (IF x.read_ok THEN 0 ELSE 1) + (IF x.append_ok THEN 0 ELSE 1)

\* the step's ledger I/O is counted; no more than MaxFaults of them fail
CountFaults ==
    /\ io_faults' = io_faults + Failures(io')
    /\ io_faults' <= MaxFaults

\* one iteration of the first loop of _process_full_migration:
\* check_session, export_full_backup, get_last_full_date, record_session
FullExport(w) ==
    /\ workers[w].at = "full_export"
    /\ LET a == Current(w) IN
       \E readable \in BOOLEAN :
       IF CheckSession(session_file, readable, Mail(a), FULL_EXPORT)
       THEN /\ acct' = [acct EXCEPT ![a].is_exported = TRUE]
            /\ workers' = [workers EXCEPT ![w] = Advance(@, opts)]
            /\ io' = IoOk
            /\ UNCHANGED <<backup_exists, calls, ever_ok, session_file, entries>>
       ELSE \E raise \in {"none", "mkdir", "log"}, out \in {"ok", "fail"},
               wrote \in BOOLEAN, appendable \in BOOLEAN :
            IF raise = "mkdir"
            THEN \* account.create_folder() raises: no command is run
                 /\ out = "fail" /\ ~wrote /\ ~appendable
                 /\ workers' = [workers EXCEPT ![w].at = "failed"]
                 /\ io' = IoOf(readable, FALSE, FALSE)
                 /\ UNCHANGED <<acct, backup_exists, calls, ever_ok, session_file,
                                entries>>
            ELSE /\ backup_exists[a] => wrote
                 /\ calls' = [calls EXCEPT ![a].export = out]
                 /\ ever_ok' = [ever_ok EXCEPT ![a].export = @ \/ out = "ok"]
                 /\ backup_exists' = [backup_exists EXCEPT ![a] = wrote]
                 /\ IF raise = "log"
                    THEN \* account.save_log() raises before the flag is set
                         /\ ~appendable
                         /\ workers' = [workers EXCEPT ![w].at = "failed"]
                         /\ io' = IoOf(readable, FALSE, FALSE)
                         /\ UNCHANGED <<acct, session_file, entries>>
                    ELSE /\ acct' = [acct EXCEPT ![a].is_exported = (out = "ok")]
                         /\ workers' = [workers EXCEPT ![w] = Advance(@, opts)]
                         /\ IF ReturnedTrue(out)
                            THEN /\ RecordIfDated(a, FULL_EXPORT,
                                        GetLastFullDate(wrote), appendable)
                                 /\ io' = IoOf(readable, wrote, appendable)
                            ELSE /\ ~appendable
                                 /\ io' = IoOf(readable, FALSE, FALSE)
                                 /\ UNCHANGED <<session_file, entries>>
    /\ CountFaults
    /\ UNCHANGED <<opts, incr_file, cutover, prev_ok, RunRest>>

\* one iteration of the second loop of _process_full_migration:
\* check_session, import_full_backup, get_last_full_date, record_session;
\* curl cannot upload an archive that does not exist
FullImport(w) ==
    /\ workers[w].at = "full_import"
    /\ LET a == Current(w) IN
       \E readable \in BOOLEAN :
       IF CheckSession(session_file, readable, Mail(a), FULL_IMPORT)
       THEN /\ acct' = [acct EXCEPT ![a].is_migrated = TRUE]
            /\ workers' = [workers EXCEPT ![w] = Advance(@, opts)]
            /\ io' = IoOk
            /\ UNCHANGED <<calls, ever_ok, session_file, entries>>
       ELSE IF acct[a].is_exported
       THEN \E raise \in {"none", "log"}, out \in {"ok", "fail"},
               appendable \in BOOLEAN :
            /\ out = "ok" => backup_exists[a]
            /\ calls' = [calls EXCEPT ![a].import = out]
            /\ ever_ok' = [ever_ok EXCEPT ![a].import = @ \/ out = "ok"]
            /\ IF raise = "log"
               THEN /\ ~appendable
                    /\ workers' = [workers EXCEPT ![w].at = "failed"]
                    /\ io' = IoOf(readable, FALSE, FALSE)
                    /\ UNCHANGED <<acct, session_file, entries>>
               ELSE /\ acct' = [acct EXCEPT ![a].is_migrated = (out = "ok")]
                    /\ workers' = [workers EXCEPT ![w] = Advance(@, opts)]
                    /\ IF ReturnedTrue(out)
                       THEN /\ RecordIfDated(a, FULL_IMPORT,
                                   GetLastFullDate(backup_exists[a]), appendable)
                            /\ io' = IoOf(readable, backup_exists[a], appendable)
                       ELSE /\ ~appendable
                            /\ io' = IoOf(readable, FALSE, FALSE)
                            /\ UNCHANGED <<session_file, entries>>
       ELSE /\ workers' = [workers EXCEPT ![w] = Advance(@, opts)]
            /\ io' = IoOf(readable, FALSE, FALSE)
            /\ UNCHANGED <<acct, calls, ever_ok, session_file, entries>>
    /\ CountFaults
    /\ UNCHANGED <<opts, backup_exists, incr_file, cutover, prev_ok, RunRest>>

\* the supplied date alone
IncDate_NoFallback(a) == opts.inc_date

\* `self.inc_date or account.get_last_full_date()`
IncDate(a) ==
    IF opts.inc_date # NoDate THEN opts.inc_date
    ELSE GetLastFullDate(backup_exists[a])

\* one iteration of the first loop of _process_incremental_migration:
\* export_incremental_backup, record_session. curl -o leaves the archive
\* missing, empty or with data, whatever the response says.
IncrExport(w) ==
    /\ workers[w].at = "incr_export"
    /\ LET a == Current(w)
           inc_date == IncDate(a)
       IN
       IF inc_date = NoDate
       THEN /\ workers' = [workers EXCEPT ![w] = Advance(@, opts)]
            /\ io' = IoOk
            /\ UNCHANGED <<acct, incr_file, calls, session_file, entries>>
       ELSE \E raise \in {"none", "mkdir", "log"}, out \in {"ok", "fail"},
               file \in {"missing", "empty", "data"}, appendable \in BOOLEAN :
            IF raise = "mkdir"
            THEN /\ out = "fail" /\ file = "missing" /\ ~appendable
                 /\ workers' = [workers EXCEPT ![w].at = "failed"]
                 /\ io' = IoOk
                 /\ UNCHANGED <<acct, incr_file, calls, session_file, entries>>
            ELSE /\ incr_file[a] # "missing" => file # "missing"
                 /\ calls' = [calls EXCEPT ![a].incr_export = out]
                 /\ incr_file' = [incr_file EXCEPT ![a] = file]
                 /\ IF raise = "log"
                    THEN \* account.save_incr_log() raises before the flag is set
                         /\ ~appendable
                         /\ workers' = [workers EXCEPT ![w].at = "failed"]
                         /\ io' = IoOk
                         /\ UNCHANGED <<acct, session_file, entries>>
                    ELSE /\ acct' = [acct EXCEPT ![a].is_incr_exported = (out = "ok")]
                         /\ workers' = [workers EXCEPT ![w] = Advance(@, opts)]
                         /\ IF out = "ok"
                            THEN /\ RecordIfDated(a, INCR_EXPORT, inc_date, appendable)
                                 /\ io' = IoOf(TRUE, TRUE, appendable)
                            ELSE /\ ~appendable
                                 /\ io' = IoOk
                                 /\ UNCHANGED <<session_file, entries>>
    /\ CountFaults
    /\ UNCHANGED <<opts, backup_exists, cutover, ever_ok, prev_ok, RunRest>>

\* an Account whose flag a failed cutover command takes back
PerformCutover_RollBack(account, returncode) ==
    IF returncode = 0 THEN account
    ELSE [account EXCEPT !.is_incr_migrated = FALSE]

\* _perform_cutover(account): the Account after the zmprov command ended with
\* returncode; the outcome is logged and nothing else
PerformCutover(account, returncode) == account

\* an iteration of the import loop that runs the cutover command although
\* the upload failed
IncrImport_CutoverOnFailure(w) ==
    /\ workers[w].at = "incr_import"
    /\ LET a == Current(w) IN
       /\ calls' = [calls EXCEPT ![a].incr_import = "fail"]
       /\ cutover' = [cutover EXCEPT ![a] = @ + 1]
       /\ acct' = [acct EXCEPT ![a].is_incr_migrated = FALSE]
       /\ workers' = [workers EXCEPT ![w] = Advance(@, opts)]
    /\ io' = IoOk
    /\ UNCHANGED <<opts, backup_exists, incr_file, ever_ok, prev_ok, io_faults,
                   session_file, entries, RunRest>>

\* one iteration of the second loop of _process_incremental_migration:
\* import_incremental_backup (inc_path.stat(), the size-0 case, the upload,
\* _perform_cutover), record_session
IncrImport(w) ==
    /\ workers[w].at = "incr_import"
    /\ LET a == Current(w)
           inc_date == IncDate(a)
       IN
       IF inc_date = NoDate
       THEN /\ workers' = [workers EXCEPT ![w] = Advance(@, opts)]
            /\ io' = IoOk
            /\ UNCHANGED <<acct, cutover, calls, session_file, entries>>
       ELSE IF incr_file[a] = "missing"
       THEN \* inc_path.stat() raises FileNotFoundError
            /\ workers' = [workers EXCEPT ![w].at = "failed"]
            /\ io' = IoOk
            /\ UNCHANGED <<acct, cutover, calls, session_file, entries>>
       ELSE IF incr_file[a] = "empty"
       THEN \E appendable \in BOOLEAN, returncode \in {0, 1} :
            /\ acct' = [acct EXCEPT ![a] =
                            PerformCutover([@ EXCEPT !.is_incr_migrated = TRUE],
                                           returncode)]
            /\ cutover' = [cutover EXCEPT ![a] = @ + 1]
            /\ workers' = [workers EXCEPT ![w] = Advance(@, opts)]
            /\ RecordIfDated(a, INCR_IMPORT, inc_date, appendable)
            /\ io' = [IoOf(TRUE, TRUE, appendable) EXCEPT
                        !.cutover_ok = (returncode = 0)]
            /\ UNCHANGED calls
       ELSE \E raise \in {"none", "log"}, out \in {"ok", "fail"},
               appendable \in BOOLEAN, returncode \in {0, 1} :
            /\ calls' = [calls EXCEPT ![a].incr_import = out]
            /\ IF raise = "log"
               THEN /\ ~appendable /\ returncode = 0
                    /\ workers' = [workers EXCEPT ![w].at = "failed"]
                    /\ io' = IoOk
                    /\ UNCHANGED <<acct, cutover, session_file, entries>>
               ELSE /\ workers' = [workers EXCEPT ![w] = Advance(@, opts)]
                    /\ IF out = "ok"
                       THEN /\ acct' = [acct EXCEPT ![a] =
                                    PerformCutover(
                                        [@ EXCEPT !.is_incr_migrated = TRUE],
                                        returncode)]
                            /\ cutover' = [cutover EXCEPT ![a] = @ + 1]
                            /\ RecordIfDated(a, INCR_IMPORT, inc_date, appendable)
                            /\ io' = [IoOf(TRUE, TRUE, appendable) EXCEPT
                                        !.cutover_ok = (returncode = 0)]
                       ELSE /\ ~appendable /\ returncode = 0
                            /\ acct' = [acct EXCEPT ![a].is_incr_migrated = FALSE]
                            /\ io' = IoOk
                            /\ UNCHANGED <<cutover, session_file, entries>>
    /\ CountFaults
    /\ UNCHANGED <<opts, backup_exists, incr_file, ever_ok, prev_ok, RunRest>>

\* an iteration that imports the LDIFF of the account before any export
Ldiff_ImportFirst(w) ==
    /\ workers[w].at = "ldiff"
    /\ LET a == Current(w) IN
       /\ calls' = [calls EXCEPT ![a].ldiff_import = "ok"]
       /\ acct' = [acct EXCEPT ![a].is_ldiff_imported = TRUE]
       /\ workers' = [workers EXCEPT ![w] = Advance(@, opts)]
    /\ io' = IoOk
    /\ UNCHANGED <<opts, backup_exists, incr_file, cutover, ever_ok, prev_ok,
                   io_faults, session_file, entries, RunRest>>

\* one iteration of the loop of _process_ldiff: export_ldiff, and after
\* a successful export with a target store modify_ldiff_for_load_balancing
\* and import_ldiff. A missing key of ldap_config raises KeyError before
\* the command is built.
Ldiff(w) ==
    /\ workers[w].at = "ldiff"
    /\ LET a == Current(w) IN
       \E raise \in {"none", "mkdir", "write", "read"},
          rc_export \in {0, 1}, rc_import \in {0, 1} :
       IF raise = "mkdir" \/ ~(ExportLdiffKeys \subseteq SourceLdapConfig)
       THEN \* account.create_folder() or ldap_config[...] raises
            /\ workers' = [workers EXCEPT ![w].at = "failed"]
            /\ UNCHANGED <<acct, calls>>
       ELSE IF rc_export # 0
       THEN /\ calls' = [calls EXCEPT ![a].ldiff_export = "fail"]
            /\ acct' = [acct EXCEPT ![a].is_ldiff_exported = FALSE]
            /\ workers' = [workers EXCEPT ![w] = Advance(@, opts)]
       ELSE IF raise = "write"
       THEN \* account.ldiff_path.write_text raises before the flag is set
            /\ calls' = [calls EXCEPT ![a].ldiff_export = "ok"]
            /\ workers' = [workers EXCEPT ![w].at = "failed"]
            /\ UNCHANGED acct
       ELSE IF TargetStore(opts) = NoStore
       THEN /\ calls' = [calls EXCEPT ![a].ldiff_export = "ok"]
            /\ acct' = [acct EXCEPT ![a].is_ldiff_exported = TRUE]
            /\ workers' = [workers EXCEPT ![w] = Advance(@, opts)]
       ELSE IF raise = "read" \/ ~(ImportLdiffKeys \subseteq DestLdapConfig)
       THEN \* modify_ldiff_for_load_balancing or ldap_config[...] raises
            /\ calls' = [calls EXCEPT ![a].ldiff_export = "ok"]
            /\ acct' = [acct EXCEPT ![a].is_ldiff_exported = TRUE]
            /\ workers' = [workers EXCEPT ![w].at = "failed"]
       ELSE /\ calls' = [calls EXCEPT
                           ![a].ldiff_export = "ok",
                           ![a].ldiff_import = IF rc_import = 0 THEN "ok" ELSE "fail"]
            /\ acct' = [acct EXCEPT ![a].is_ldiff_exported = TRUE,
                                    ![a].is_ldiff_imported = (rc_import = 0)]
            /\ workers' = [workers EXCEPT ![w] = Advance(@, opts)]
    /\ io' = IoOk
    /\ UNCHANGED <<opts, backup_exists, incr_file, cutover, ever_ok, prev_ok,
                   io_faults, session_file, entries, RunRest>>

LdiffStep == \E w \in 1..Len(workers) : Ldiff(w)

FullStep ==
    \E w \in 1..Len(workers) :
        \/ FullExport(w)
        \/ FullImport(w)

IncrStep ==
    \E w \in 1..Len(workers) :
        \/ IncrExport(w)
        \/ IncrImport(w)

-----------------------------------------------------------------------------
(* Spec: runs of the full migration, one after the other, over one ledger; *)
(* the process may be killed at any point of a run                         *)

Init ==
    /\ web = NoWeb
    /\ archive = NoArchive
    /\ ldif = NoLdif
    /\ curl = NoCurl
    /\ twin = NoTwin
    /\ PartIdle
    /\ LedgerIdle
    /\ RunIdle(NumRerunAccounts)
    /\ AppendIdle

StartFull ==
    \E num_threads \in 1..MaxRerunThreads :
        StartRun([do_ldiff |-> FALSE, do_full |-> TRUE, do_incr |-> FALSE,
                  inc_date |-> NoDate, store_index |-> 0], num_threads)

\* the process is killed between two iterations of the workers
Crash ==
    /\ ~RunOver
    /\ workers' = <<>>
    /\ acct' = [a \in Accounts |-> NewAccount]
    /\ calls' = NoCalls
    /\ io' = IoOk
    /\ UNCHANGED <<opts, backup_exists, incr_file, cutover, ever_ok, prev_ok,
                   io_faults, session_file, entries, RunRest>>

\* the process is killed while a worker is in export_full_backup or right
\* after it returned, before record_session
KilledInFullExport(w) ==
    /\ workers[w].at = "full_export"
    /\ LET a == Current(w) IN
       \E readable \in BOOLEAN, out \in {"ok", "fail"}, wrote \in BOOLEAN :
       /\ ~CheckSession(session_file, readable, Mail(a), FULL_EXPORT)
       /\ io_faults + Failures(IoOf(readable, FALSE, FALSE)) <= MaxFaults
       /\ io_faults' = io_faults + Failures(IoOf(readable, FALSE, FALSE))
       /\ backup_exists[a] => wrote
       /\ ever_ok' = [ever_ok EXCEPT ![a].export = @ \/ out = "ok"]
       /\ backup_exists' = [backup_exists EXCEPT ![a] = wrote]
    /\ workers' = <<>>
    /\ acct' = [a \in Accounts |-> NewAccount]
    /\ calls' = NoCalls
    /\ io' = IoOk
    /\ UNCHANGED <<opts, incr_file, cutover, prev_ok, session_file, entries,
                   RunRest>>

\* the process is killed right after import_full_backup returned success,
\* before record_session
KilledInFullImport(w) ==
    /\ workers[w].at = "full_import"
    /\ LET a == Current(w) IN
       \E readable \in BOOLEAN :
       /\ ~CheckSession(session_file, readable, Mail(a), FULL_IMPORT)
       /\ io_faults + Failures(IoOf(readable, FALSE, FALSE)) <= MaxFaults
       /\ io_faults' = io_faults + Failures(IoOf(readable, FALSE, FALSE))
       /\ acct[a].is_exported
       /\ backup_exists[a]
       /\ ever_ok' = [ever_ok EXCEPT ![a].import = TRUE]
    /\ workers' = <<>>
    /\ acct' = [a \in Accounts |-> NewAccount]
    /\ calls' = NoCalls
    /\ io' = IoOk
    /\ UNCHANGED <<opts, backup_exists, incr_file, cutover, prev_ok, session_file,
                   entries, RunRest>>

Killed ==
    \/ Crash
    \/ \E w \in 1..Len(workers) :
        \/ KilledInFullExport(w)
        \/ KilledInFullImport(w)

Next == StartFull \/ FullStep \/ Killed

Spec == Init /\ [][Next]_vars

-----------------------------------------------------------------------------
(* Claims about repeated full-migration runs                             *)

\* this step issues the external call `op` for account a
Issued(a, op) == calls[a][op] = "none" /\ calls'[a][op] # "none"

\* C1 as stated: after a run in which the export and the import of an
\* account both reported success, the next run over the same ledger makes
\* no external export call and no external import call for that account.
C1_IdempotentAsStated ==
    \A a \in Accounts :
        prev_ok[a] # "no" =>
            calls[a].export = "none" /\ calls[a].import = "none"

\* C1: after a run in which the export and the import of an account both
\* reported success and both of its entries were appended to the ledger,
\* no step of the next run over the same ledger whose read of the ledger
\* succeeds issues an external export or import call for that account.
C1_Idempotent ==
    [][\A a \in Accounts :
          (prev_ok[a] = "recorded" /\ io'.read_ok) =>
              ~Issued(a, "export") /\ ~Issued(a, "import")]_vars

\* a second run has gone through both passes for an account migrated and
\* recorded by the run before it, and has made no call for it
C1_Witness ==
    \E a \in Accounts :
        /\ prev_ok[a] = "recorded"
        /\ workers # <<>> /\ RunOver
        /\ acct[a].is_exported /\ acct[a].is_migrated
        /\ calls[a].export = "none" /\ calls[a].import = "none"

\* C2 as stated: once the external full export (full import) of an account
\* has reported success in some run, crashed or not, no step issues that
\* call for that account again.
C2_ExactlyOnceAsStated ==
    [][\A a \in Accounts :
          /\ ever_ok[a].export => ~Issued(a, "export")
          /\ ever_ok[a].import => ~Issued(a, "import")]_vars

\* C2: over any sequence of full-migration runs sharing one ledger, with
\* crashes at any point, once the FULL-EXPORT (FULL-IMPORT) entry of an
\* account is in the ledger, no step whose read of the ledger succeeds
\* issues the external export (import) call for that account.
C2_ExactlyOnce ==
    [][\A a \in Accounts :
          /\ (HoldsEntry(Mail(a), FULL_EXPORT) /\ io'.read_ok) => ~Issued(a, "export")
          /\ (HoldsEntry(Mail(a), FULL_IMPORT) /\ io'.read_ok) => ~Issued(a, "import")]_vars

\* a run that follows an unfinished one has skipped, through the ledger,
\* the export that the earlier run recorded, and has called the import
C2_Witness ==
    \E a \in Accounts :
        /\ ever_ok[a].export
        /\ HoldsEntry(Mail(a), FULL_EXPORT)
        /\ prev_ok[a] = "no"
        /\ acct[a].is_exported
        /\ calls[a].export = "none"
        /\ calls[a].import = "ok"

\* C10 as stated: in every state of a full-migration run, over every ledger
\* content, is_migrated is True only if is_exported is True.
C10_ImportAfterExportAsStated ==
    \A a \in Accounts : acct[a].is_migrated => acct[a].is_exported

\* C10: in every state of a full-migration run, is_migrated is True only if
\* is_exported is True or the ledger holds the account's FULL-IMPORT entry,
\* and only if the account's export has reported success in this run or in
\* an earlier one.
C10_ImportAfterExport ==
    \A a \in Accounts :
        acct[a].is_migrated =>
            /\ acct[a].is_exported \/ HoldsEntry(Mail(a), FULL_IMPORT)
            /\ ever_ok[a].export

\* an import that reported success in the run of its export, and an import
\* pass of a later run that skipped the account through the ledger
C10_Witness ==
    \E a \in Accounts :
        /\ acct[a].is_migrated /\ acct[a].is_exported
        /\ calls[a].import = "none"
        /\ HoldsEntry(Mail(a), FULL_IMPORT)
        /\ ever_ok[a].import

-----------------------------------------------------------------------------
(* SpecRun: one run of the tool, a full migration or an incremental one,   *)
(* with or without the LDIFF pass before it, over a working directory that *)
(* holds the full archives of some accounts                                *)

\* a date given with --at-time
GivenDate == <<"03/01/2024">>

\* the indexes --destination-store can give: the store of the list, and one
\* past it; the index is read by the LDIFF pass only
StoreIndexes == {0, 1}

\* the options of the run: --full, or --incr with or without a date, each
\* with or without --ldiff
RunOptions ==
    {o \in [do_ldiff : BOOLEAN, do_full : BOOLEAN, do_incr : BOOLEAN,
            inc_date : {NoDate, GivenDate}, store_index : StoreIndexes] :
        /\ o.do_full # o.do_incr
        /\ ~o.do_incr => o.inc_date = NoDate
        /\ ~o.do_ldiff => o.store_index = 0}

RunInit ==
    /\ web = NoWeb
    /\ archive = NoArchive
    /\ ldif = NoLdif
    /\ curl = NoCurl
    /\ twin = NoTwin
    /\ PartIdle
    /\ LedgerIdle
    /\ AppendIdle
    /\ opts = NoOpts
    /\ workers = <<>>
    /\ acct = [a \in 1..NumAccounts |-> NewAccount]
    /\ backup_exists \in [1..NumAccounts -> BOOLEAN]
    /\ incr_file = [a \in 1..NumAccounts |-> "missing"]
    /\ cutover = [a \in 1..NumAccounts |-> 0]
    /\ calls = NoCalls
    /\ ever_ok = [a \in 1..NumAccounts |-> [export |-> FALSE, import |-> FALSE]]
    /\ prev_ok = [a \in 1..NumAccounts |-> "no"]
    /\ io_faults = 0

\* the archives left by earlier runs matter only to an incremental run: a
\* full run starts without them, and an incremental run with a date starts
\* with the archives of all the accounts or with none
RunStart ==
    /\ opts = NoOpts
    /\ \E o \in RunOptions, num_threads \in 1..MaxThreads :
        /\ o.do_full => \A a \in Accounts : ~backup_exists[a]
        /\ o.inc_date # NoDate =>
                \A a, b \in Accounts : backup_exists[a] = backup_exists[b]
        /\ StartRun(o, num_threads)

RunNext == RunStart \/ LdiffStep \/ FullStep \/ IncrStep

SpecRun == RunInit /\ [][RunNext]_vars

-----------------------------------------------------------------------------
(* Claims about one run                                                   *)

\* the ledger entries of an account
EntriesOf(a) == {n \in 1..Len(entries) : entries[n][1] = Mail(a)}

\* C3 as stated: a full migration with one worker over an empty ledger
\* completes; when it is over, every account whose export and import both
\* reported success has exactly two ledger entries, FULL-EXPORT and
\* FULL-IMPORT, and is_migrated = True; every account whose export reported
\* a failure has no ledger entry and is_migrated = False; and every account
\* has been processed, whatever happened to the other one.
C3_EndToEnd ==
    (opts.do_full /\ Len(workers) = 1 /\ RunOver) =>
        /\ workers[1].at = "exit"
        /\ \A a \in Accounts :
            /\ calls[a].export # "none"
            /\ (calls[a].export = "ok" /\ calls[a].import = "ok") =>
                 /\ Cardinality(EntriesOf(a)) = 2
                 /\ HoldsEntry(Mail(a), FULL_EXPORT)
                 /\ HoldsEntry(Mail(a), FULL_IMPORT)
                 /\ acct[a].is_migrated
            /\ calls[a].export = "fail" =>
                 /\ EntriesOf(a) = {}
                 /\ ~acct[a].is_migrated

\* C4 as stated: no failure while an account is processed takes a worker
\* out of its pass: no worker ever leaves run() through its `except`.
C4_FailureIsolation ==
    \A w \in 1..Len(workers) : workers[w].at # "failed"

\* worker w makes, in this step, the incremental import iteration of an
\* account a whose incremental archive has size 0
ZeroByteImport(w, a) ==
    /\ w \in 1..Len(workers)
    /\ workers[w].at = "incr_import"
    /\ Current(w) = a
    /\ incr_file[a] = "empty"
    /\ workers'[w] # workers[w]

\* the INCR-IMPORT entry of account a is appended in this step
AppendsIncrImport(a) ==
    entries' = Append(entries, <<Mail(a), Information(INCR_IMPORT, IncDate(a))>>)

\* C8 as stated: the incremental import of an account whose archive has
\* size 0 issues no external import call, sets is_incr_migrated, runs the
\* cutover command, and an INCR-IMPORT entry is recorded.
C8_ZeroByteAsStated ==
    [][\A a \in Accounts : \A w \in 1..Len(workers) :
          ZeroByteImport(w, a) =>
              /\ calls'[a].incr_import = "none"
              /\ acct'[a].is_incr_migrated
              /\ cutover'[a] = cutover[a] + 1
              /\ AppendsIncrImport(a)]_vars

\* C8: the incremental import of an account whose archive has size 0 issues
\* no external import call, sets is_incr_migrated, runs the cutover command
\* once, lets the worker go on, and hands an INCR-IMPORT entry to
\* record_session: the entry is in the ledger unless the append fails.
C8_ZeroByte ==
    [][\A a \in Accounts : \A w \in 1..Len(workers) :
          ZeroByteImport(w, a) =>
              /\ calls'[a].incr_import = "none"
              /\ acct'[a].is_incr_migrated
              /\ cutover'[a] = cutover[a] + 1
              /\ workers'[w].at # "failed"
              /\ IF io'.append_ok THEN AppendsIncrImport(a)
                                  ELSE entries' = entries]_vars

\* the import pass went over an account with an archive of size 0
C8_Witness ==
    \E a \in Accounts :
        /\ incr_file[a] = "empty"
        /\ acct[a].is_incr_migrated
        /\ calls[a].incr_import = "none"
        /\ cutover[a] = 1
        /\ HoldsEntry(Mail(a), INCR_IMPORT)

\* C11 as stated: in an incremental run, is_incr_migrated is True, an
\* INCR-IMPORT entry is recorded and the cutover command is run for an
\* account only while its is_incr_exported is True.
C11_IncrImportAfterExport ==
    \A a \in Accounts :
        (\/ acct[a].is_incr_migrated
         \/ cutover[a] > 0
         \/ HoldsEntry(Mail(a), INCR_IMPORT)) => acct[a].is_incr_exported

-----------------------------------------------------------------------------
(* The order of the passes of a worker                                      *)

MigrationTypes == {"ldiff", "full", "incr"}

\* the accounts of the batch that holds account a
BatchOf(a) ==
    UNION {Range(workers[w].accounts) :
              w \in {v \in 1..Len(workers) : a \in Range(workers[v].accounts)}}

\* the export pass of the type has handled account b: it ran the export
\* command, or skipped the account (the ledger holds its FULL-EXPORT entry;
\* there is no date for its incremental export)
ExportPassed(type, b) ==
    CASE type = "ldiff" -> calls[b].ldiff_export # "none"
      [] type = "full"  -> calls[b].export # "none" \/ acct[b].is_exported
      [] type = "incr"  -> calls[b].incr_export # "none" \/ IncDate(b) = NoDate

\* this step starts an import of the type for account a: it runs the import
\* command, finds the FULL-IMPORT entry, or takes the zero-byte path
ImportStarts(type, a) ==
    CASE type = "ldiff" -> Issued(a, "ldiff_import")
      [] type = "full"  -> \/ Issued(a, "import")
                           \/ ~acct[a].is_migrated /\ acct'[a].is_migrated
      [] type = "incr"  -> \/ Issued(a, "incr_import")
                           \/ cutover'[a] > cutover[a]
                           \/ ~acct[a].is_incr_migrated /\ acct'[a].is_incr_migrated

-----------------------------------------------------------------------------
(* SpecTypes: one run of the tool with any of --ldiff, --full, --incr and   *)
(* any destination store, over an empty working directory                   *)

\* main() refuses a run without a migration type
TypeOptions ==
    {o \in [do_ldiff : BOOLEAN, do_full : BOOLEAN, do_incr : BOOLEAN,
            inc_date : {NoDate, GivenDate}, store_index : StoreIndexes] :
        /\ o.do_ldiff \/ o.do_full \/ o.do_incr
        /\ ~o.do_incr => o.inc_date = NoDate
        /\ ~o.do_ldiff => o.store_index = 0}

\* the reads and the appends of the session file succeed in SpecTypes:
\* their failures are the subject of Spec and of SpecRun
TypesInit ==
    /\ web = NoWeb
    /\ archive = NoArchive
    /\ ldif = NoLdif
    /\ curl = NoCurl
    /\ twin = NoTwin
    /\ PartIdle
    /\ LedgerIdle
    /\ AppendIdle
    /\ opts = NoOpts
    /\ workers = <<>>
    /\ acct = [a \in 1..NumTypeAccounts |-> NewAccount]
    /\ backup_exists = [a \in 1..NumTypeAccounts |-> FALSE]
    /\ incr_file = [a \in 1..NumTypeAccounts |-> "missing"]
    /\ cutover = [a \in 1..NumTypeAccounts |-> 0]
    /\ calls = NoCalls
    /\ ever_ok = [a \in 1..NumTypeAccounts |-> [export |-> FALSE, import |-> FALSE]]
    /\ prev_ok = [a \in 1..NumTypeAccounts |-> "no"]
    /\ io_faults = MaxFaults

TypesStart ==
    /\ opts = NoOpts
    /\ workers = <<>>
    /\ \E o \in TypeOptions, num_threads \in 1..MaxTypeThreads :
        StartRun(o, num_threads)

TypesNext == TypesStart \/ LdiffStep \/ FullStep \/ IncrStep

SpecTypes == TypesInit /\ [][TypesNext]_vars

\* this step is a Full operation for account a: an export or import
\* command, or a change of a Full flag
FullOp(a) ==
    \/ Issued(a, "export")
    \/ Issued(a, "import")
    \/ acct'[a].is_exported # acct[a].is_exported
    \/ acct'[a].is_migrated # acct[a].is_migrated

\* this step is an Incremental operation for account a
IncrOp(a) ==
    \/ Issued(a, "incr_export")
    \/ Issued(a, "incr_import")
    \/ cutover'[a] # cutover[a]
    \/ acct'[a].is_incr_exported # acct[a].is_incr_exported
    \/ acct'[a].is_incr_migrated # acct[a].is_incr_migrated

\* the LDIFF loop has finished its iteration for account b
LdiffProcessed(b) == calls[b].ldiff_export # "none"

\* both loops of the Full migration have handled account b
FullProcessed(b) ==
    /\ ExportPassed("full", b)
    /\ acct[b].is_exported => calls[b].import # "none" \/ acct[b].is_migrated

\* both loops of the Incremental migration have handled account b
IncrProcessed(b) ==
    /\ ExportPassed("incr", b)
    /\ IncDate(b) # NoDate =>
           calls[b].incr_import # "none" \/ acct[b].is_incr_migrated

C14_EveryTypeRuns ==
    \A w \in 1..Len(workers) :
        (Ended(w) /\ opts.do_ldiff) =>
            \A b \in Range(workers[w].accounts) :
                /\ opts.do_full => FullProcessed(b)
                /\ opts.do_incr => IncrProcessed(b)

-----------------------------------------------------------------------------
(* The ledger over the runs of Spec                                         *)

IsPrefix(s, t) == Len(s) <= Len(t) /\ SubSeq(t, 1, Len(s)) = s

\* C15: the ledger is append-only: over every step of every run (setup,
\* checks, appends, failed appends, a killed process) the content of the
\* session file before the step is a prefix of its content after the step,
\* and the file is not removed.
C15_AppendOnly ==
    [][/\ IsPrefix(session_file.text, session_file'.text)
       /\ session_file.exists => session_file'.exists]_vars

\* a later run has appended a second entry behind the entry of an earlier
\* run whose other append failed
C15_Witness ==
    /\ Len(entries) >= 2
    /\ io_faults > 0
    /\ Len(FileLines(session_file.text)) >= 2

-----------------------------------------------------------------------------
(* The entries a run appends                                                *)

PhaseTags == {FULL_EXPORT, FULL_IMPORT, INCR_EXPORT, INCR_IMPORT}

\* this step appends the entry (account a, tag)
Appends(a, tag) ==
    /\ Len(entries') = Len(entries) + 1
    /\ entries'[Len(entries')][1] = Mail(a)
    /\ PhaseTag(entries'[Len(entries')][2]) = tag

\* in this step the phase of the tag reports success for account a: its
\* command is run and its output verified, or import_incremental_backup
\* returns True for a zero-byte archive
PhaseSucceeds(a, tag) ==
    CASE tag = FULL_EXPORT -> Issued(a, "export") /\ calls'[a].export = "ok"
      [] tag = FULL_IMPORT -> Issued(a, "import") /\ calls'[a].import = "ok"
      [] tag = INCR_EXPORT ->
             Issued(a, "incr_export") /\ calls'[a].incr_export = "ok"
      [] tag = INCR_IMPORT ->
             \/ Issued(a, "incr_import") /\ calls'[a].incr_import = "ok"
             \/ incr_file[a] = "empty" /\ acct'[a].is_incr_migrated

\* C16: an entry (account a, tag) is appended only by the step in which the
\* phase of that tag reported success for account a; a step in which the
\* phase fails or is skipped leaves the ledger as it is.
C16_EntriesOnSuccess ==
    [][/\ \A a \in Accounts : \A tag \in PhaseTags :
              Appends(a, tag) => PhaseSucceeds(a, tag)
       /\ (entries' # entries \/ session_file'.text # session_file.text) =>
              \E a \in Accounts : \E tag \in PhaseTags : Appends(a, tag)]_vars

\* one account's export failed and appended nothing while the other
\* account's export succeeded and was recorded
C16_Witness ==
    \E a, b \in Accounts :
        /\ calls[a].export = "fail"
        /\ EntriesOf(a) = {}
        /\ calls[b].export = "ok"
        /\ HoldsEntry(Mail(b), FULL_EXPORT)

-----------------------------------------------------------------------------
(* A failed append                                                          *)

\* a record_session call that has returned holds the ledger mutex no more,
\* whether its append failed or not (checked under SpecAppend)
FailedAppendReleasesLock ==
    \A w \in 1..Len(writers) :
        /\ writers[w].pc \in {"idle", "acquire", "done"} => lock # w
        /\ (writers[w].pc = "done" /\ writers[w].failed) => lock # w

\* this step is an iteration in which the phase succeeded for account a and
\* the append of its entry failed
AppendFails(a, op) ==
    /\ Issued(a, op)
    /\ calls'[a][op] = "ok"
    /\ ~io'.append_ok

\* C18: a failed append is swallowed. The step in which it fails leaves the
\* session file and the entries as they are, keeps the flag the phase has
\* set, changes no other flag, and the worker goes on to its next
\* iteration instead of ending. In every run a full export or import
\* is executed only when the ledger holds no entry of that phase for the
\* account or the read of the ledger fails: a lost entry makes its own phase,
\* and no phase that has its entry, run again.
C18_FailedAppendSwallowed ==
    [][/\ \A a \in Accounts :
           /\ AppendFails(a, "export") =>
                  /\ session_file' = session_file /\ entries' = entries
                  /\ acct'[a] = [acct[a] EXCEPT !.is_exported = TRUE]
                  /\ \A b \in Accounts \ {a} : acct'[b] = acct[b]
                  /\ \A w \in 1..Len(workers) :
                         workers[w].at # "failed" => workers'[w].at # "failed"
           /\ AppendFails(a, "import") =>
                  /\ session_file' = session_file /\ entries' = entries
                  /\ acct'[a] = [acct[a] EXCEPT !.is_migrated = TRUE]
                  /\ \A b \in Accounts \ {a} : acct'[b] = acct[b]
                  /\ \A w \in 1..Len(workers) :
                         workers[w].at # "failed" => workers'[w].at # "failed"
           /\ (Issued(a, "export") /\ io'.read_ok) =>
                  ~HoldsEntry(Mail(a), FULL_EXPORT)
           /\ (Issued(a, "import") /\ io'.read_ok) =>
                  ~HoldsEntry(Mail(a), FULL_IMPORT)]_vars

\* after a run whose export and import succeeded and whose FULL-EXPORT
\* append failed, the next run has exported again and has not imported
C18_Witness ==
    \E a \in Accounts :
        /\ prev_ok[a] = "ok"
        /\ HoldsEntry(Mail(a), FULL_IMPORT)
        /\ calls[a].export # "none"
        /\ calls[a].import = "none"
        /\ RunOver /\ workers # <<>>

-----------------------------------------------------------------------------
(* SpecFlags: two runs of one worker side by side. Both get the same ledger,*)
(* account list, options, files and outcomes of every loop iteration; the   *)
(* first starts with newly loaded Account objects, the second with the      *)
(* Account objects an earlier run of the web application has left           *)
(* (start_migration hands current_accounts to every run).                   *)

TwinAccounts == 1..NumTwinAccounts

\* the four flags of the Full and the Incremental migration
TwinNewFlags ==
    [is_exported |-> FALSE, is_migrated |-> FALSE,
     is_incr_exported |-> FALSE, is_incr_migrated |-> FALSE]

\* the flags an earlier run can have left on an Account object
TwinStaleFlags ==
    {TwinNewFlags,
     [TwinNewFlags EXCEPT !.is_exported = TRUE],
     [TwinNewFlags EXCEPT !.is_exported = TRUE, !.is_migrated = TRUE],
     [TwinNewFlags EXCEPT !.is_incr_exported = TRUE, !.is_incr_migrated = TRUE],
     [is_exported |-> TRUE, is_migrated |-> TRUE,
      is_incr_exported |-> TRUE, is_incr_migrated |-> TRUE]}

\* the options of the two runs: --full and/or --incr, a date with --incr
TwinOptions ==
    {o \in [do_ldiff : {FALSE}, do_full : BOOLEAN, do_incr : BOOLEAN,
            inc_date : {NoDate, GivenDate}, store_index : {0}] :
        /\ o.do_full \/ o.do_incr
        /\ ~o.do_incr => o.inc_date = NoDate}

\* what the environment does in one loop iteration: an exception of
\* create_folder ("mkdir") or of save_log / save_incr_log ("log"), the
\* verdict on the curl output, whether curl wrote the full archive (it does
\* when the export is accepted), and the incremental archive curl left
TwinOutcomes(at) ==
    {x \in [raise : {"none", "mkdir", "log"}, out : {"ok", "fail"},
            wrote : BOOLEAN, file : {"missing", "empty", "data"}] :
        /\ x.raise = "mkdir" => at \in {"full_export", "incr_export"}
        /\ x.raise = "mkdir" => (x.out = "fail" /\ ~x.wrote /\ x.file = "missing")
        /\ at # "full_export" => ~x.wrote
        /\ at # "incr_export" => x.file = "missing"
        /\ at = "full_export" => (x.out = "ok" <=> x.wrote) \/ x.raise = "mkdir"}

\* check_session over the ledger of one run: the entries the runs started
\* with and the entries the run has appended
TwinCheck(r, a, tag) ==
    \/ <<a, tag>> \in twin.ledger0
    \/ \E n \in 1..Len(r.entries) : r.entries[n] = <<a, tag>>

\* `self.inc_date or account.get_last_full_date()`
TwinIncDate(r, a) ==
    IF twin.opts.inc_date # NoDate THEN twin.opts.inc_date
    ELSE GetLastFullDate(r.backup[a])

TwinFails(r) == [r EXCEPT !.failed = TRUE]

TwinCalls(r, op, a) == [r EXCEPT !.calls = Append(@, <<op, a>>)]

TwinRecords(r, a, tag) == [r EXCEPT !.entries = Append(@, <<a, tag>>)]

\* one iteration of the first loop of _process_full_migration
TwinFullExport(r, a, x) ==
    IF TwinCheck(r, a, FULL_EXPORT)
    THEN [r EXCEPT !.flags[a].is_exported = TRUE]
    ELSE IF x.raise = "mkdir" THEN TwinFails(r)
    ELSE LET called == [TwinCalls(r, "export", a) EXCEPT
                            !.backup[a] = @ \/ x.wrote]
         IN  IF x.raise = "log" THEN TwinFails(called)
             ELSE IF x.out = "ok"
             THEN LET set == [called EXCEPT !.flags[a].is_exported = TRUE]
                  IN  IF GetLastFullDate(set.backup[a]) # NoDate
                      THEN TwinRecords(set, a, FULL_EXPORT)
                      ELSE set
             ELSE [called EXCEPT !.flags[a].is_exported = FALSE]

\* one iteration of the second loop of _process_full_migration
TwinFullImport(r, a, x) ==
    IF TwinCheck(r, a, FULL_IMPORT)
    THEN [r EXCEPT !.flags[a].is_migrated = TRUE]
    ELSE IF ~r.flags[a].is_exported THEN r
    ELSE LET called == TwinCalls(r, "import", a)
             out == IF r.backup[a] THEN x.out ELSE "fail"
         IN  IF x.raise = "log" THEN TwinFails(called)
             ELSE IF out = "ok"
             THEN TwinRecords([called EXCEPT !.flags[a].is_migrated = TRUE],
                              a, FULL_IMPORT)
             ELSE [called EXCEPT !.flags[a].is_migrated = FALSE]

\* one iteration of the first loop of _process_incremental_migration
TwinIncrExport(r, a, x) ==
    IF TwinIncDate(r, a) = NoDate THEN r
    ELSE IF x.raise = "mkdir" THEN TwinFails(r)
    ELSE LET called == [TwinCalls(r, "incr_export", a) EXCEPT
                            !.incr[a] = IF x.file = "missing" THEN @ ELSE x.file]
         IN  IF x.raise = "log" THEN TwinFails(called)
             ELSE IF x.out = "ok"
             THEN TwinRecords([called EXCEPT !.flags[a].is_incr_exported = TRUE],
                              a, INCR_EXPORT)
             ELSE [called EXCEPT !.flags[a].is_incr_exported = FALSE]

\* one iteration of the second loop of _process_incremental_migration
TwinIncrImport(r, a, x) ==
    IF TwinIncDate(r, a) = NoDate THEN r
    ELSE IF r.incr[a] = "missing" THEN TwinFails(r)
    ELSE IF r.incr[a] = "empty"
    THEN TwinRecords(TwinCalls([r EXCEPT !.flags[a].is_incr_migrated = TRUE],
                               "cutover", a),
                     a, INCR_IMPORT)
    ELSE LET called == TwinCalls(r, "incr_import", a)
         IN  IF x.raise = "log" THEN TwinFails(called)
             ELSE IF x.out = "ok"
             THEN TwinRecords(TwinCalls([called EXCEPT
                                             !.flags[a].is_incr_migrated = TRUE],
                                        "cutover", a),
                              a, INCR_IMPORT)
             ELSE [called EXCEPT !.flags[a].is_incr_migrated = FALSE]

\* the iteration of the loop the runs are in; a run whose worker has ended
\* through the `except` of run() does nothing more
TwinIteration(r, at, a, x) ==
    IF r.failed THEN r
    ELSE CASE at = "full_export" -> TwinFullExport(r, a, x)
           [] at = "full_import" -> TwinFullImport(r, a, x)
           [] at = "incr_export" -> TwinIncrExport(r, a, x)
           [] at = "incr_import" -> TwinIncrImport(r, a, x)

FlagsInit ==
    /\ web = NoWeb
    /\ archive = NoArchive
    /\ ldif = NoLdif
    /\ curl = NoCurl
    /\ twin = NoTwin
    /\ PartIdle
    /\ LedgerIdle
    /\ RunIdle(0)
    /\ AppendIdle

\* start_migration, twice: the same options, ledger and archives; newly
\* loaded accounts for the first run, left-over accounts for the second
FlagsStart ==
    /\ twin.wk.at = "idle"
    /\ \E o \in TwinOptions,
          ledger0 \in SUBSET (TwinAccounts \X {FULL_EXPORT, FULL_IMPORT}),
          backup0 \in [TwinAccounts -> BOOLEAN],
          flags0 \in [TwinAccounts -> TwinStaleFlags] :
        LET accts == [a \in TwinAccounts |-> a]
            run(flags) == [flags |-> flags, failed |-> FALSE, calls |-> <<>>,
                           entries |-> <<>>, backup |-> backup0,
                           incr |-> [a \in TwinAccounts |-> "missing"]]
        IN  twin' = [opts |-> o,
                     wk |-> [accounts |-> accts, at |-> FirstPass(o, accts),
                             idx |-> 1],
                     ledger0 |-> ledger0,
                     x |-> <<run([a \in TwinAccounts |-> TwinNewFlags]),
                             run(flags0)>>]
    /\ UNCHANGED TwinRest

\* the two workers make the same loop iteration with the same outcome
FlagsStep ==
    /\ twin.wk.at \in {"full_export", "full_import", "incr_export", "incr_import"}
    /\ \E x \in TwinOutcomes(twin.wk.at) :
        twin' = [twin EXCEPT
                    !.x = [k \in 1..2 |->
                              TwinIteration(twin.x[k], twin.wk.at,
                                            twin.wk.accounts[twin.wk.idx], x)],
                    !.wk = Advance(@, twin.opts)]
    /\ UNCHANGED TwinRest

FlagsNext == FlagsStart \/ FlagsStep

SpecFlags == FlagsInit /\ [][FlagsNext]_vars

TwinOver == twin.wk.at = "exit"

\* the two runs have made the same calls and appended the same entries
TwinSameCallsAndEntries ==
    twin.x # <<>> =>
        /\ twin.x[1].calls = twin.x[2].calls
        /\ twin.x[1].entries = twin.x[2].entries
        /\ twin.x[1].failed = twin.x[2].failed

\* the two runs hold the same flags of the requested migration types
TwinSameFlags ==
    \A a \in TwinAccounts :
        /\ twin.opts.do_full =>
               /\ twin.x[1].flags[a].is_exported = twin.x[2].flags[a].is_exported
               /\ twin.x[1].flags[a].is_migrated = twin.x[2].flags[a].is_migrated
        /\ twin.opts.do_incr =>
               /\ twin.x[1].flags[a].is_incr_exported
                      = twin.x[2].flags[a].is_incr_exported
               /\ twin.x[1].flags[a].is_incr_migrated
                      = twin.x[2].flags[a].is_incr_migrated

\* C19 as stated: two runs started with the same ledger, account list,
\* options and outcomes but with different initial flags make the same
\* sequence of calls, append the same entries and end with the same flags
\* of the requested migration types.
C19_FlagsNotInput ==
    TwinOver => (TwinSameCallsAndEntries /\ TwinSameFlags)

-----------------------------------------------------------------------------
(* SpecVerify: one call of export_full_backup, import_full_backup,          *)
(* export_incremental_backup or import_incremental_backup                   *)

\* success_messages and error_message of _verify_curl_response, as pieces
\* of text
SUCCESS_200 == <<"HTTP/1.1 ", "200 OK">>
SUCCESS_204 == <<"HTTP/1.1 ", "204 No Content">>
ERROR_500 == <<"500 Server Error">>

\* `t in s` of two strings: t is a contiguous part of s
Contains(s, t) ==
    \E i \in 0..(Len(s) - Len(t)) : SubSeq(s, i + 1, i + Len(t)) = t

\* _verify_curl_response
VerifyCurlResponse(output) ==
    LET has_success == Contains(output, SUCCESS_200) \/ Contains(output, SUCCESS_204)
        has_error == Contains(output, ERROR_500)
    IN  has_success /\ ~has_error

\* CurlSucceeded of an operation that also wants exit status 0
CurlSucceeded_ExitStatus(returncode, output) ==
    returncode = 0 /\ VerifyCurlResponse(output)

\* `returncode, output = self._execute_command(command)` followed by
\* `if self._verify_curl_response(output):`
CurlSucceeded(returncode, output) == VerifyCurlResponse(output)

\* the pieces stdout + stderr of a command are made of
OutputPieces ==
    {"HTTP/1.1 ", "HTTP/2 ", "200 OK", "204 No Content", "500 Server Error", NL}

RECURSIVE OutputsOfLen(_)
OutputsOfLen(n) ==
    IF n = 0 THEN {<<>>}
    ELSE {Append(s, t) : s \in OutputsOfLen(n - 1), t \in OutputPieces}

CurlOutputs == UNION {OutputsOfLen(n) : n \in 0..MaxOutputLen}

BackupOperations ==
    {"export_full", "import_full", "export_incr", "import_incr"}

VerifyInit ==
    /\ web = NoWeb
    /\ archive = NoArchive
    /\ ldif = NoLdif
    /\ curl = NoCurl
    /\ twin = NoTwin
    /\ PartIdle
    /\ LedgerIdle
    /\ RunIdle(0)
    /\ AppendIdle

\* the operation is called, up to its command: create_folder of an export
\* may raise, import_full_backup returns False for an account that is not
\* exported, import_incremental_backup stats the archive (which raises when
\* it is missing) and returns True for a zero-byte archive, whose flag it
\* sets; flag is the value the phase flag of the Account has at the call
VCall ==
    /\ curl.pc = "idle"
    /\ \E operation \in BackupOperations, mkdir_raises \in BOOLEAN,
          is_exported \in BOOLEAN, file \in {"missing", "empty", "data"},
          flag \in BOOLEAN :
        LET returns(r) == [curl EXCEPT !.pc = "returned", !.op = operation,
                                       !.reported = r, !.flag = flag]
            runs == [curl EXCEPT !.pc = "run", !.op = operation, !.flag = flag]
        IN  curl' =
              CASE operation \in {"export_full", "export_incr"} ->
                       IF mkdir_raises THEN returns("raised")
                       ELSE runs
                [] operation = "import_full" ->
                       IF ~is_exported THEN returns("False")
                       ELSE runs
                [] operation = "import_incr" ->
                       IF file = "missing" THEN returns("raised")
                       ELSE IF file = "empty"
                       THEN [returns("True") EXCEPT !.flag = TRUE]
                       ELSE runs
    /\ UNCHANGED CurlRest

\* str(e) of the OSError of a command that cannot be started
STR_OF_OSERROR == <<"[Errno 2] No such file or directory: 'curl'">>

\* _execute_command: (returncode, stdout + stderr) of the command when
\* subprocess.run started it, (1, str(e)) when subprocess.run raised
ExecuteCommand(launched, returncode, output) ==
    IF launched THEN <<returncode, output>>
    ELSE <<1, STR_OF_OSERROR>>

\* the operation runs its command with _execute_command
VExecute ==
    /\ curl.pc = "run"
    /\ \E launched \in BOOLEAN, returncode \in {0, 1}, output \in CurlOutputs :
        LET result == ExecuteCommand(launched, returncode, output)
        IN  curl' = [curl EXCEPT !.pc = "verify", !.ran = TRUE,
                                 !.launched = launched,
                                 !.returncode = result[1], !.output = result[2]]
    /\ UNCHANGED CurlRest

\* the verdict on the output; save_log / save_incr_log may raise before the
\* flag is assigned and the operation returns
VVerify ==
    /\ curl.pc = "verify"
    /\ \E log_raises \in BOOLEAN :
        LET succeeded == CurlSucceeded(curl.returncode, curl.output)
        IN  curl' = [curl EXCEPT
                        !.pc = "returned",
                        !.reported = IF log_raises THEN "raised"
                                     ELSE IF succeeded THEN "True" ELSE "False",
                        !.flag = IF log_raises THEN @ ELSE succeeded]
    /\ UNCHANGED CurlRest

\* what the worker tests before record_session: the value the operation
\* returned, or after export_incremental_backup the flag is_incr_exported; an
\* operation that raised ends the worker
WorkerRecords(c) ==
    /\ c.reported # "raised"
    /\ IF c.op = "export_incr" THEN c.flag ELSE c.reported = "True"

\* the worker after the call: record_session when the phase succeeded (and,
\* for a full phase, the archive has a date); the append may fail
VRecord ==
    /\ curl.pc = "returned"
    /\ \E appended \in BOOLEAN :
        curl' = [curl EXCEPT !.pc = "done",
                             !.recorded = appended /\ WorkerRecords(curl)]
    /\ UNCHANGED CurlRest

VerifyNext == VCall \/ VExecute \/ VVerify \/ VRecord

SpecVerify == VerifyInit /\ [][VerifyNext]_vars

\* the output holds a success marker and not the server-error marker
MarkersSaySuccess(output) ==
    /\ \/ Contains(output, <<"HTTP/1.1 ", "200 OK">>)
       \/ Contains(output, <<"HTTP/1.1 ", "204 No Content">>)
    /\ ~Contains(output, <<"500 Server Error">>)

\* C20 as stated: an operation that returns reports success exactly when
\* the captured output holds a success marker and not the server-error
\* marker.
C20_SuccessPredicateAsStated ==
    (curl.pc = "returned" /\ curl.reported # "raised") =>
        (curl.reported = "True" <=> MarkersSaySuccess(curl.output))

\* C20: an operation that has run its curl command and returns reports
\* success exactly when the captured output holds a success marker
\* ("HTTP/1.1 200 OK" or "HTTP/1.1 204 No Content") and not the server-error
\* marker ("500 Server Error"), whatever the exit status of the command; an
\* operation that returns without running a command reports failure, except
\* the incremental import, which reports success (for a zero-byte archive).
C20_SuccessPredicate ==
    (curl.pc = "returned" /\ curl.reported # "raised") =>
        IF curl.ran
        THEN curl.reported = "True" <=> MarkersSaySuccess(curl.output)
        ELSE curl.reported = "True" <=> curl.op = "import_incr"

\* a command that ended with exit status 1 and whose output holds a
\* success marker is reported successful
C20_Witness ==
    /\ curl.pc = "returned"
    /\ curl.ran
    /\ curl.returncode # 0
    /\ curl.reported = "True"

-----------------------------------------------------------------------------
(* SpecLdiff: modify_ldiff_for_load_balancing on one LDIFF file *)

\* '\n'.join(lines)
RECURSIVE Join(_, _)
Join(lines, sep) ==
    IF lines = <<>> THEN <<>>
    ELSE IF Len(lines) = 1 THEN lines[1]
    ELSE lines[1] \o <<sep>> \o Join(Tail(lines), sep)

MAIL_HOST == "zimbraMailHost:"
MAIL_TRANSPORT == "zimbraMailTransport:"
CHILD_VISIBLE == "zimbraPrefChildVisibleAccount:"

\* one iteration of the loop that passes child-visible lines through
ModifiedLine_NoSkip(line, target_store) ==
    IF StartsWith(line, <<MAIL_HOST>>)
    THEN <<(<<MAIL_HOST, " ", target_store>>)>>
    ELSE IF StartsWith(line, <<MAIL_TRANSPORT>>)
    THEN <<(<<MAIL_TRANSPORT, " lmtp:", target_store, ":7025">>)>>
    ELSE <<line>>

\* one iteration of the loop over the lines: what it appends to
\* modified_lines (one line, or nothing)
ModifiedLine(line, target_store) ==
    IF StartsWith(line, <<MAIL_HOST>>)
    THEN <<(<<MAIL_HOST, " ", target_store>>)>>
    ELSE IF StartsWith(line, <<MAIL_TRANSPORT>>)
    THEN <<(<<MAIL_TRANSPORT, " lmtp:", target_store, ":7025">>)>>
    ELSE IF StartsWith(line, <<CHILD_VISIBLE>>)
    THEN <<>>
    ELSE <<line>>

\* the loop: modified_lines after the lines were visited in order
RECURSIVE ModifiedLines(_, _)
ModifiedLines(lines, target_store) ==
    IF lines = <<>> THEN <<>>
    ELSE ModifiedLine(Head(lines), target_store)
            \o ModifiedLines(Tail(lines), target_store)

\* the text written back to the file
ModifyLdiffForLoadBalancing(ldiff_content, target_store) ==
    Join(ModifiedLines(Split(ldiff_content, NL), target_store), NL)

\* lines an exported LDIFF file is made of: the three attributes the loop
\* looks for, another attribute, a folded line that holds an attribute name
\* after its leading space, and the empty line
LdiffLinePool ==
    { <<MAIL_HOST, " mbox1.src">>,
      <<MAIL_TRANSPORT, " lmtp:mbox1.src:7025">>,
      <<CHILD_VISIBLE, " u9@src">>,
      <<"mail:", " u1@src">>,
      <<" ", MAIL_HOST, " folded">>,
      <<>> }

RECURSIVE LinesOfLen(_)
LinesOfLen(n) ==
    IF n = 0 THEN {<<>>}
    ELSE {<<l>> \o ls : l \in LdiffLinePool, ls \in LinesOfLen(n - 1)}

\* texts of one to MaxLdiffLines lines
LdiffTexts ==
    UNION {{Join(ls, NL) : ls \in LinesOfLen(n)} : n \in 1..MaxLdiffLines}

TargetStores == {"test", "mbox2.dst"}

LdiffInit ==
    /\ web = NoWeb
    /\ archive = NoArchive
    /\ PartIdle
    /\ LedgerIdle
    /\ AppendIdle
    /\ RunIdle(0)
    /\ twin = NoTwin
    /\ curl = NoCurl
    /\ ldif = NoLdif

\* export_ldiff wrote the output of its command to the account's LDIFF file
LdiffWritten ==
    /\ ldif.pc = "none"
    /\ \E text \in LdiffTexts, target_store \in TargetStores :
        ldif' = [ldif EXCEPT !.pc = "exported", !.text = text,
                             !.target_store = target_store]
    /\ UNCHANGED LdifRest

\* modify_ldiff_for_load_balancing(account, target_store)
LdiffModify ==
    /\ ldif.pc = "exported"
    /\ ldif' = [ldif EXCEPT
                    !.pc = "modified",
                    !.modified = ModifyLdiffForLoadBalancing(ldif.text,
                                                             ldif.target_store)]
    /\ UNCHANGED LdifRest

LdiffNext == LdiffWritten \/ LdiffModify

SpecLdiff == LdiffInit /\ [][LdiffNext]_vars

\* the lines of the input that do not begin with the child-visible-account
\* attribute, in their order
KeptLines(lines) ==
    SelectSeq(lines, LAMBDA l : ~StartsWith(l, <<CHILD_VISIBLE>>))

InputLines == Split(ldif.text, NL)

\* C21 as stated: the output is the input without its child-visible-account
\* lines, each mail-routing-host line set to the target store and every other
\* line unchanged, in the original order.
C21_LdiffTransformAsStated ==
    ldif.pc = "modified" =>
        LET kept == KeptLines(InputLines)
        IN  ldif.modified =
                Join([i \in 1..Len(kept) |->
                        IF StartsWith(kept[i], <<MAIL_HOST>>)
                        THEN <<MAIL_HOST, " ", ldif.target_store>>
                        ELSE kept[i]], NL)

\* C21: the output is the input without its lines beginning with
\* zimbraPrefChildVisibleAccount:, with each line beginning with
\* zimbraMailHost: replaced by "zimbraMailHost: <target store>", each line
\* beginning with zimbraMailTransport: replaced by
\* "zimbraMailTransport: lmtp:<target store>:7025", and every other line
\* unchanged, all in the original relative order.
C21_LdiffTransform ==
    ldif.pc = "modified" =>
        LET kept == KeptLines(InputLines)
        IN  ldif.modified =
                Join([i \in 1..Len(kept) |->
                        IF StartsWith(kept[i], <<MAIL_HOST>>)
                        THEN <<MAIL_HOST, " ", ldif.target_store>>
                        ELSE IF StartsWith(kept[i], <<MAIL_TRANSPORT>>)
                        THEN <<MAIL_TRANSPORT, " lmtp:", ldif.target_store,
                               ":7025">>
                        ELSE kept[i]], NL)

\* a file with a mail-routing-host line, a child-visible-account line and
\* another line has been transformed
C21_Witness ==
    /\ ldif.pc = "modified"
    /\ \E i, j, k \in 1..Len(InputLines) :
        /\ StartsWith(InputLines[i], <<MAIL_HOST>>)
        /\ StartsWith(InputLines[j], <<CHILD_VISIBLE>>)
        /\ InputLines[k] = <<"mail:", " u1@src">>
    /\ ldif.modified # ldif.text

-----------------------------------------------------------------------------
(* SpecDate: Account.get_last_full_date on one full-backup archive *)

DigitChars == <<"0", "1", "2", "3", "4", "5", "6", "7", "8", "9">>

\* the decimal digits of n, zero-padded to width characters (%m, %d, %Y)
RECURSIVE Padded(_, _)
Padded(n, width) ==
    IF width = 0 THEN <<>>
    ELSE Padded(n \div 10, width - 1) \o <<DigitChars[(n % 10) + 1]>>

\* int() of a string of decimal digits
RECURSIVE ParseInt(_)
ParseInt(s) ==
    IF s = <<>> THEN 0
    ELSE 10 * ParseInt(SubSeq(s, 1, Len(s) - 1))
            + (CHOOSE d \in 0..9 : DigitChars[d + 1] = s[Len(s)])

\* strftime('%Y-%m-%d')
FormatYmd(date) ==
    Padded(date.year, 4) \o <<"-">> \o Padded(date.month, 2) \o <<"-">>
        \o Padded(date.day, 2)

\* strptime(s, '%Y-%m-%d'): midnight of the day
ParseYmd(s) ==
    LET parts == Split(s, "-")
    IN  [year |-> ParseInt(parts[1]), month |-> ParseInt(parts[2]),
         day |-> ParseInt(parts[3]), hour |-> 0]

\* strftime('%m/%d/%Y')
FormatMdy(date) ==
    Padded(date.month, 2) \o <<"/">> \o Padded(date.day, 2) \o <<"/">>
        \o Padded(date.year, 4)

IsLeap(year) == year % 4 = 0 /\ (year % 100 # 0 \/ year % 400 = 0)

DAYS_IN_MONTH == <<31, 28, 31, 30, 31, 30, 31, 31, 30, 31, 30, 31>>

DaysInMonth(year, month) ==
    IF month = 2 /\ IsLeap(year) THEN 29 ELSE DAYS_IN_MONTH[month]

RECURSIVE DaysBeforeMonth(_, _)
DaysBeforeMonth(year, month) ==
    IF month = 1 THEN 0
    ELSE DaysBeforeMonth(year, month - 1) + DaysInMonth(year, month - 1)

DaysBeforeYear(year) ==
    LET y == year - 1
    IN  y * 365 + (y \div 4) - (y \div 100) + (y \div 400)

\* the day number of a date, 0001-01-01 being day 1, which timedelta
\* arithmetic works on
ToOrdinal(date) ==
    DaysBeforeYear(date.year) + DaysBeforeMonth(date.year, date.month)
        + date.day

\* the date of a day number
FromOrdinal(ordinal) ==
    LET n0 == ordinal - 1
        n400 == n0 \div 146097
        r400 == n0 % 146097
        n100 == r400 \div 36524
        r100 == r400 % 36524
        n4 == r100 \div 1461
        r4 == r100 % 1461
        n1 == r4 \div 365
        n == r4 % 365
        year == n400 * 400 + 1 + n100 * 100 + n4 * 4 + n1
    IN  IF n1 = 4 \/ n100 = 4
        THEN [year |-> year - 1, month |-> 12, day |-> 31, hour |-> 0]
        ELSE LET month == CHOOSE m \in 1..12 :
                            /\ DaysBeforeMonth(year, m) <= n
                            /\ n < DaysBeforeMonth(year, m)
                                        + DaysInMonth(year, m)
             IN  [year |-> year, month |-> month,
                  day |-> n - DaysBeforeMonth(year, month) + 1, hour |-> 0]

\* a date minus no day at all
MinusDays_Zero(date, days) == date

\* date - timedelta(days=days); the time of day is kept
MinusDays(date, days) ==
    [FromOrdinal(ToOrdinal(date) - days) EXCEPT !.hour = date.hour]

\* get_last_full_date, given whether backup_path exists and its modification
\* time in local time
LastFullDate(exists, mtime) ==
    IF ~exists THEN NoDate
    ELSE LET last_date == FormatYmd(mtime)
             yesterday == MinusDays(ParseYmd(last_date), 1)
         IN  FormatMdy(yesterday)

\* the years an archive may date from: NumYears years from 2023 on (2024 is
\* a leap year), and the century years 2000 (leap) and 2100 (not leap)
ArchiveYears == {2000, 2100} \cup (2023..(2022 + NumYears))

ArchiveMtimes ==
    {m \in [year : ArchiveYears, month : 1..12, day : 1..31, hour : {0, 23}] :
        m.day <= DaysInMonth(m.year, m.month)}

DateInit ==
    /\ web = NoWeb
    /\ PartIdle
    /\ LedgerIdle
    /\ AppendIdle
    /\ RunIdle(0)
    /\ twin = NoTwin
    /\ curl = NoCurl
    /\ ldif = NoLdif
    /\ archive = NoArchive

\* the working directory holds the account's full-backup archive, written at
\* some time, or none
DArchive ==
    /\ archive.pc = "idle"
    /\ \/ archive' = [archive EXCEPT !.pc = "stored"]
       \/ \E mtime \in ArchiveMtimes :
            archive' = [archive EXCEPT !.pc = "stored", !.exists = TRUE,
                                       !.mtime = mtime]
    /\ UNCHANGED ArchiveRest

\* account.get_last_full_date()
DGetLastFullDate ==
    /\ archive.pc = "stored"
    /\ archive' = [archive EXCEPT
                      !.pc = "returned",
                      !.last_full_date = LastFullDate(archive.exists,
                                                      archive.mtime)]
    /\ UNCHANGED ArchiveRest

DateNext == DArchive \/ DGetLastFullDate

SpecDate == DateInit /\ [][DateNext]_vars

\* the calendar day before a date
DayBefore(date) ==
    IF date.day > 1
    THEN [year |-> date.year, month |-> date.month, day |-> date.day - 1]
    ELSE IF date.month > 1
    THEN [year |-> date.year, month |-> date.month - 1,
          day |-> DaysInMonth(date.year, date.month - 1)]
    ELSE [year |-> date.year - 1, month |-> 12, day |-> 31]

\* C22: get_last_full_date returns None when the archive does not exist, and
\* otherwise ten characters MM/DD/YYYY that spell the calendar day before the
\* day of the archive's modification time, whatever the time of day.
C22_DateSkew ==
    archive.pc = "returned" =>
        LET r == archive.last_full_date
            before == DayBefore(archive.mtime)
        IN  IF ~archive.exists THEN r = NoDate
            ELSE /\ Len(r) = 10
                 /\ r[3] = "/" /\ r[6] = "/"
                 /\ \A i \in {1, 2, 4, 5, 7, 8, 9, 10} :
                        \E d \in 1..10 : r[i] = DigitChars[d]
                 /\ ParseInt(SubSeq(r, 1, 2)) = before.month
                 /\ ParseInt(SubSeq(r, 4, 5)) = before.day
                 /\ ParseInt(SubSeq(r, 7, 10)) = before.year

\* the example of the specification (2024-03-15 gives 03/14/2024), a first of
\* March in a leap year, and a first of January
C22_Witness ==
    /\ archive.pc = "returned"
    /\ archive.exists
    /\ \/ /\ archive.mtime = [year |-> 2024, month |-> 3, day |-> 15, hour |-> 23]
          /\ archive.last_full_date =
                <<"0", "3", "/", "1", "4", "/", "2", "0", "2", "4">>
       \/ /\ archive.mtime = [year |-> 2024, month |-> 3, day |-> 1, hour |-> 0]
          /\ archive.last_full_date =
                <<"0", "2", "/", "2", "9", "/", "2", "0", "2", "4">>
       \/ /\ archive.mtime = [year |-> 2024, month |-> 1, day |-> 1, hour |-> 0]
          /\ archive.last_full_date =
                <<"1", "2", "/", "3", "1", "/", "2", "0", "2", "3">>

-----------------------------------------------------------------------------
(* Claims on SpecRun: a cutover command that fails *)

\* worker w makes, in this step, the incremental import iteration of account
\* a, runs the cutover command, and the command fails
CutoverFails(w, a) ==
    /\ w \in 1..Len(workers)
    /\ workers[w].at = "incr_import"
    /\ Current(w) = a
    /\ cutover'[a] = cutover[a] + 1
    /\ ~io'.cutover_ok

\* C23 as stated: when the cutover command fails after a successful or
\* zero-byte incremental import, the account stays is_incr_migrated = True,
\* the INCR-IMPORT entry is recorded, and the worker goes on to its next
\* iteration.
C23_CutoverFailureAsStated ==
    [][\A a \in Accounts : \A w \in 1..Len(workers) :
          CutoverFails(w, a) =>
              /\ acct'[a].is_incr_migrated
              /\ AppendsIncrImport(a)
              /\ workers'[w] = Advance(workers[w], opts)]_vars

\* C23: when the cutover command fails after a successful or zero-byte
\* incremental import, the account stays is_incr_migrated = True, the import
\* returns success, so that the INCR-IMPORT entry is handed to
\* record_session (it is in the ledger unless the append itself fails), and
\* the worker goes on to its next iteration.
C23_CutoverFailure ==
    [][\A a \in Accounts : \A w \in 1..Len(workers) :
          CutoverFails(w, a) =>
              /\ acct'[a].is_incr_migrated
              /\ IF io'.append_ok THEN AppendsIncrImport(a)
                                  ELSE entries' = entries
              /\ workers'[w] = Advance(workers[w], opts)
              /\ workers'[w].at # "failed"]_vars

\* a cutover command has just failed for an account whose import succeeded:
\* the account is marked, its INCR-IMPORT entry is the last of the ledger,
\* and no worker has left its pass
C23_Witness ==
    /\ ~io.cutover_ok
    /\ io.append_ok
    /\ \E a \in Accounts :
        /\ calls[a].incr_import = "ok"
        /\ acct[a].is_incr_migrated
        /\ cutover[a] = 1
        /\ entries # <<>>
        /\ entries[Len(entries)][1] = Mail(a)
        /\ PhaseTag(entries[Len(entries)][2]) = INCR_IMPORT
    /\ \A w \in 1..Len(workers) : workers[w].at # "failed"

-----------------------------------------------------------------------------
(* Claims on SpecRun: the date of an incremental migration *)

\* worker w makes, in this step, an iteration of one of the two loops of
\* _process_incremental_migration for account a
IncrIteration(w, a) ==
    /\ w \in 1..Len(workers)
    /\ workers[w].at \in {"incr_export", "incr_import"}
    /\ Current(w) = a
    /\ workers'[w] # workers[w]

\* the supplied date when there is one, else the last-full-backup date of
\* the account when its archive exists, else none
EffectiveDate(a) ==
    IF opts.inc_date # NoDate THEN opts.inc_date
    ELSE IF backup_exists[a] THEN ADate
    ELSE NoDate

\* C24: an iteration of the incremental export or import loop for an account
\* without a supplied date and without a last-full-backup date makes no
\* external export, import or cutover call, appends no ledger entry, and
\* moves the worker to its next iteration; an iteration for an account with
\* a date is not skipped (the export loop calls the external export unless
\* the account folder cannot be made), and every entry it appends carries
\* the supplied date when one was given, else the last-full-backup date.
C24_EffectiveDate ==
    [][\A a \in Accounts : \A w \in 1..Len(workers) :
          IncrIteration(w, a) =>
              IF EffectiveDate(a) = NoDate
              THEN /\ calls' = calls
                   /\ cutover' = cutover
                   /\ entries' = entries
                   /\ session_file' = session_file
                   /\ workers'[w] = Advance(workers[w], opts)
                   /\ workers'[w].at # "failed"
              ELSE /\ workers[w].at = "incr_export" =>
                        \/ calls'[a].incr_export # "none"
                        \/ workers'[w].at = "failed"
                   /\ entries' # entries =>
                        \E tag \in {INCR_EXPORT, INCR_IMPORT} :
                            entries' = Append(entries,
                                <<Mail(a), Information(tag, EffectiveDate(a))>>)
      ]_vars

\* an incremental run without a supplied date has ended: one worker skipped
\* its first account, which has no archive, and went on to export and import
\* its second account with the date of that account's archive
C24_Witness ==
    /\ opts.do_incr /\ opts.inc_date = NoDate
    /\ Len(workers) = 1
    /\ workers[1].at = "exit"
    /\ ~backup_exists[1] /\ backup_exists[2]
    /\ calls[1].incr_export = "none" /\ calls[1].incr_import = "none"
    /\ cutover[1] = 0
    /\ EntriesOf(1) = {}
    /\ calls[2].incr_export = "ok" /\ calls[2].incr_import = "ok"
    /\ \E n \in EntriesOf(2) : entries[n][2] = Information(INCR_IMPORT, ADate)

-----------------------------------------------------------------------------
(* SpecWeb: the web application: start_migration, stop_migration,
   run_migration_background, run_migration and the workers it starts *)

\* current_accounts, once loaded
WebAccountList == [k \in 1..NumWebAccounts |-> k]

\* the runs the application is followed through
WebRunIds == {1, 2}

\* the thread counts a start request asks for: none, the single-threaded
\* case, and a pool
WebThreadCounts == {0, 1, 2}

\* the passes over its batch a worker is asked for (one for LDIFF, two for a
\* full or an incremental migration)
WebPasses == {1, 2}

WebRuns == DOMAIN web.runs

\* the slice of worker w of a run
WebBatch(run, w) ==
    IF run.num_threads = 1 THEN WebAccountList
    ELSE ThreadAccounts(WebAccountList, run.num_threads, w - 1)

\* a MigrationWorker that was started: its pass, its position in its batch
\* and whether it is inside an iteration
NewWebWorker == [at |-> "run", pass |-> 1, idx |-> 1, busy |-> FALSE]

Terminated(worker) == worker.at \in {"exit", "failed"}

\* a join that does not wait
Joinable_NoWait(worker) == TRUE

\* thread.join() returns once the thread has terminated; in the
\* single-threaded case worker.run() returns
Joinable(worker) == Terminated(worker)

WebInit ==
    /\ PartIdle
    /\ LedgerIdle
    /\ AppendIdle
    /\ RunIdle(0)
    /\ twin = NoTwin
    /\ curl = NoCurl
    /\ ldif = NoLdif
    /\ archive = NoArchive
    /\ web = NoWeb

\* start_migration, up to its checks: the request is rejected when the status
\* is 'running'
WStartCheck ==
    /\ web.status # "running"
    /\ WebAccountList # <<>>
    /\ web.handlers + Len(web.runs) < Cardinality(WebRunIds)
    /\ web' = [web EXCEPT !.handlers = @ + 1]
    /\ UNCHANGED WebRest

\* start_migration, from update_migration_state on: the status becomes
\* 'running' and the background thread of the run is started
WStartThread ==
    /\ web.handlers > 0
    /\ \E num_threads \in WebThreadCounts, passes \in WebPasses :
        web' = [web EXCEPT
                  !.handlers = @ - 1,
                  !.status = "running",
                  !.runs = Append(@, [num_threads |-> num_threads,
                                      passes |-> passes, pc |-> "start",
                                      workers |-> <<>>, joined |-> 0,
                                      stop_seen |-> FALSE])]
    /\ UNCHANGED WebRest

\* stop_migration: the status becomes 'stopped'
WStop ==
    /\ web.status # "stopped"
    /\ web' = [web EXCEPT
                  !.status = "stopped",
                  !.runs = [r \in WebRuns |->
                              IF web.runs[r].pc \in {"start", "sync", "loop"}
                              THEN [web.runs[r] EXCEPT !.stop_seen = TRUE]
                              ELSE web.runs[r]]]
    /\ UNCHANGED WebRest

\* run_migration is entered: one worker run in the calling thread, or the
\* loop that starts the workers; a thread count of 0 raises
\* ZeroDivisionError, which run_migration_background turns into the status
\* 'error'
WEnter(r) ==
    /\ web.runs[r].pc = "start"
    /\ IF web.runs[r].num_threads = 1
       THEN web' = [web EXCEPT !.runs[r].pc = "sync",
                               !.runs[r].workers = <<NewWebWorker>>]
       ELSE IF web.runs[r].num_threads = 0
       THEN web' = [web EXCEPT !.runs[r].pc = "error", !.status = "error"]
       ELSE web' = [web EXCEPT !.runs[r].pc = "loop"]
    /\ UNCHANGED WebRest

\* one iteration of `for i in range(num_threads)`: worker.start()
WCreateWorker(r) ==
    /\ web.runs[r].pc = "loop"
    /\ Len(web.runs[r].workers) < web.runs[r].num_threads
    /\ web' = [web EXCEPT !.runs[r].workers = Append(@, NewWebWorker)]
    /\ UNCHANGED WebRest

\* one iteration of `for thread in threads: thread.join()`
WJoin(r) ==
    /\ web.runs[r].pc = "loop"
    /\ Len(web.runs[r].workers) = web.runs[r].num_threads
    /\ web.runs[r].joined < web.runs[r].num_threads
    /\ Joinable(web.runs[r].workers[web.runs[r].joined + 1])
    /\ web' = [web EXCEPT !.runs[r].joined = @ + 1]
    /\ UNCHANGED WebRest

\* run_migration returns ("Migration completed")
WReturn(r) ==
    /\ \/ /\ web.runs[r].pc = "sync"
          /\ Joinable(web.runs[r].workers[1])
       \/ /\ web.runs[r].pc = "loop"
          /\ web.runs[r].joined = web.runs[r].num_threads
    /\ web' = [web EXCEPT !.runs[r].pc = "returned"]
    /\ UNCHANGED WebRest

\* run_migration_background after run_migration:
\* update_migration_state({'status': 'completed', ...})
WCompleted(r) ==
    /\ web.runs[r].pc = "returned"
    /\ web' = [web EXCEPT !.runs[r].pc = "completed", !.status = "completed"]
    /\ UNCHANGED WebRest

\* the status after `stats = MigrationStatistics(accounts)` and the emit of
\* stats.total, ...: MigrationStatistics has no attribute `total`, the
\* AttributeError is caught by the `except Exception` of
\* run_migration_background, which sets the status to 'error'
StatusAfterStatistics(status) == "error"

\* run_migration_background after the status update: the statistics
WStatistics(r) ==
    /\ web.runs[r].pc = "completed"
    /\ web' = [web EXCEPT !.runs[r].pc = "done",
                          !.status = StatusAfterStatistics(@)]
    /\ UNCHANGED WebRest

\* a worker enters the iteration of its pass for the next account of its
\* batch, or leaves run() when its batch is empty
WWorkerBegin(r, w) ==
    /\ web.runs[r].workers[w].at = "run"
    /\ ~web.runs[r].workers[w].busy
    /\ IF WebBatch(web.runs[r], w) = <<>>
       THEN web' = [web EXCEPT !.runs[r].workers[w].at = "exit"]
       ELSE web' = [web EXCEPT !.runs[r].workers[w].busy = TRUE]
    /\ UNCHANGED WebRest

\* the iteration ends: the worker goes on with the next account, the next
\* pass or the end of run(); or the iteration raises and run() ends in its
\* `except`
WWorkerEnd(r, w) ==
    /\ web.runs[r].workers[w].busy
    /\ LET worker == web.runs[r].workers[w]
           last == Len(WebBatch(web.runs[r], w))
       IN  \E raises \in BOOLEAN :
           web' = [web EXCEPT !.runs[r].workers[w] =
                     IF raises
                     THEN [worker EXCEPT !.at = "failed", !.busy = FALSE]
                     ELSE IF worker.idx < last
                     THEN [worker EXCEPT !.idx = @ + 1, !.busy = FALSE]
                     ELSE IF worker.pass < web.runs[r].passes
                     THEN [worker EXCEPT !.pass = @ + 1, !.idx = 1,
                                         !.busy = FALSE]
                     ELSE [worker EXCEPT !.at = "exit", !.busy = FALSE]]
    /\ UNCHANGED WebRest

WRunStep ==
    \E r \in WebRuns :
        \/ WEnter(r)
        \/ WCreateWorker(r)
        \/ WJoin(r)
        \/ WReturn(r)
        \/ WCompleted(r)
        \/ WStatistics(r)

WWorkerStep ==
    \E r \in WebRuns : \E w \in DOMAIN web.runs[r].workers :
        \/ WWorkerBegin(r, w)
        \/ WWorkerEnd(r, w)

WebNext == WStartCheck \/ WStartThread \/ WStop \/ WRunStep \/ WWorkerStep

SpecWeb == WebInit /\ [][WebNext]_vars

\* C25: once run_migration has returned, and so when the statistics are
\* computed, every worker the run was asked for has been started and has
\* terminated, for every thread count.
C25_JoinBarrier ==
    \A r \in WebRuns :
        web.runs[r].pc \in {"returned", "completed", "done"} =>
            /\ Len(web.runs[r].workers) = web.runs[r].num_threads
            /\ \A w \in DOMAIN web.runs[r].workers :
                /\ Terminated(web.runs[r].workers[w])
                /\ ~web.runs[r].workers[w].busy

\* a run with two workers has returned after both processed their batches
C25_Witness ==
    \E r \in WebRuns :
        /\ web.runs[r].pc = "returned"
        /\ web.runs[r].num_threads = 2
        /\ \A w \in DOMAIN web.runs[r].workers :
            web.runs[r].workers[w].at = "exit"

-----------------------------------------------------------------------------
(* Claims on SpecWeb: stop requests, ownership of the Account records, runs
   in flight *)

\* C26: when a run during which a stop was requested has returned, every one
\* of its workers has processed every account of its batch through all the
\* requested passes.
C26_StopDoesNotCancel ==
    \A r \in WebRuns :
        (web.runs[r].stop_seen
            /\ web.runs[r].pc \in {"returned", "completed", "done"}) =>
            \A w \in DOMAIN web.runs[r].workers :
                web.runs[r].workers[w].at = "exit"

\* worker w of run r is inside an iteration for account a: it reads and
\* assigns the phase flags of the record
Touches(r, w, a) ==
    /\ r \in WebRuns
    /\ w \in DOMAIN web.runs[r].workers
    /\ web.runs[r].workers[w].busy
    /\ WebBatch(web.runs[r], w)[web.runs[r].workers[w].idx] = a

\* C27: no two workers, of the same run or of two runs, are inside an
\* iteration for the same Account record at the same time.
C27_SingleOwner ==
    \A a \in DOMAIN WebAccountList :
        \A r1, r2 \in WebRuns :
            \A w1 \in DOMAIN web.runs[r1].workers,
               w2 \in DOMAIN web.runs[r2].workers :
                (Touches(r1, w1, a) /\ Touches(r2, w2, a)) =>
                    (r1 = r2 /\ w1 = w2)

\* a worker of run r has been started and has not terminated
HasLiveWorker(r) ==
    \E w \in DOMAIN web.runs[r].workers : ~Terminated(web.runs[r].workers[w])

\* C28: at no time do two runs have workers that have not finished.
C28_OneRunInFlight ==
    \A r1, r2 \in WebRuns :
        (HasLiveWorker(r1) /\ HasLiveWorker(r2)) => r1 = r2

-----------------------------------------------------------------------------
(* SpecResume: one run of a full migration, with or without LDIFF, over the
   ledger earlier runs left *)

\* what the ledger holds of an account when the run starts: nothing, its
\* FULL-EXPORT entry alone (the earlier run ended between the two passes),
\* both entries, or its FULL-IMPORT entry alone (the append of the
\* FULL-EXPORT entry had failed)
LedgerKinds == {"none", "export", "both", "import"}

\* the entries of one account in such a ledger
EntriesOfKind(a, kind) ==
    (IF kind \in {"export", "both"}
     THEN <<(<<Mail(a), Information(FULL_EXPORT, ADate)>>)>> ELSE <<>>)
    \o (IF kind \in {"import", "both"}
        THEN <<(<<Mail(a), Information(FULL_IMPORT, ADate)>>)>> ELSE <<>>)

\* the entries of the accounts 1..n
RECURSIVE LedgerOfKinds(_, _)
LedgerOfKinds(kinds, n) ==
    IF n = 0 THEN <<>>
    ELSE LedgerOfKinds(kinds, n - 1) \o EntriesOfKind(n, kinds[n])

\* the session file after record_session was called for each entry in turn
RECURSIVE FileOfEntries(_)
FileOfEntries(es) ==
    IF es = <<>> THEN [NoSessionFile EXCEPT !.exists = TRUE]
    ELSE RecordSession(FileOfEntries(SubSeq(es, 1, Len(es) - 1)), TRUE,
                       es[Len(es)][1], es[Len(es)][2])

ResumeInit ==
    /\ PartIdle
    /\ AppendIdle
    /\ twin = NoTwin
    /\ curl = NoCurl
    /\ ldif = NoLdif
    /\ archive = NoArchive
    /\ web = NoWeb
    /\ ck = NoCheck
    /\ opts = NoOpts
    /\ workers = <<>>
    /\ acct = [a \in 1..NumAccounts |-> NewAccount]
    /\ \E kinds \in [1..NumAccounts -> LedgerKinds] :
        /\ entries = LedgerOfKinds(kinds, NumAccounts)
        /\ session_file = FileOfEntries(entries)
        /\ backup_exists = [a \in 1..NumAccounts |-> kinds[a] # "none"]
    /\ io = IoOk
    /\ incr_file = [a \in 1..NumAccounts |-> "missing"]
    /\ cutover = [a \in 1..NumAccounts |-> 0]
    /\ calls = NoCalls
    /\ ever_ok = [a \in 1..NumAccounts |-> [export |-> FALSE, import |-> FALSE]]
    /\ prev_ok = [a \in 1..NumAccounts |-> "no"]
    /\ io_faults = 0

\* the run: a full migration, with or without LDIFF, with one worker or more
ResumeStart ==
    /\ opts = NoOpts
    /\ \E do_ldiff \in BOOLEAN, num_threads \in 1..MaxThreads :
        StartRun([do_ldiff |-> do_ldiff, do_full |-> TRUE, do_incr |-> FALSE,
                  inc_date |-> NoDate, store_index |-> 0], num_threads)

ResumeNext == ResumeStart \/ LdiffStep \/ FullStep

SpecResume == ResumeInit /\ [][ResumeNext]_vars

\* worker w makes, in this step, the iteration of its pass `at` for account a
FullIteration(w, a, at) ==
    /\ w \in 1..Len(workers)
    /\ workers[w].at = at
    /\ Current(w) = a
    /\ workers'[w] # workers[w]

\* the run is over and the ledger holds the FULL-EXPORT entry of account a,
\* of before the run, and no FULL-IMPORT entry
ResumedRunOver(a) ==
    /\ opts.do_full
    /\ RunOver
    /\ HoldsEntry(Mail(a), FULL_EXPORT)
    /\ ~HoldsEntry(Mail(a), FULL_IMPORT)
    /\ calls[a].export = "none"

\* C29: for an account whose ledger holds a FULL-EXPORT entry and no
\* FULL-IMPORT entry, the export iteration makes no external export call and
\* sets is_exported, and the run does not end without an external import
\* call for it; for an account whose ledger holds a FULL-IMPORT entry, the
\* import iteration makes no external import call.
C29_Resume ==
    [][\A a \in Accounts :
        /\ \A w \in 1..Len(workers) :
            /\ ( /\ FullIteration(w, a, "full_export")
                 /\ HoldsEntry(Mail(a), FULL_EXPORT)
                 /\ ~HoldsEntry(Mail(a), FULL_IMPORT) ) =>
                    /\ ~Issued(a, "export")
                    /\ acct'[a].is_exported
            /\ ( /\ FullIteration(w, a, "full_import")
                 /\ HoldsEntry(Mail(a), FULL_IMPORT) ) =>
                    ~Issued(a, "import")
        /\ ResumedRunOver(a)' => calls'[a].import # "none"
      ]_vars

-----------------------------------------------------------------------------
(* Claims on SpecResume: LDIFF and the ledger *)

\* worker w makes, in this step, an iteration of the loop of _process_ldiff
LdiffIteration(w) ==
    /\ w \in 1..Len(workers)
    /\ workers[w].at = "ldiff"
    /\ workers'[w] # workers[w]

\* C30: an iteration of the LDIFF loop neither reads nor appends to the
\* ledger, and when a run with LDIFF is over the LDIFF export command has
\* been run for every account of every batch, whatever the ledger holds.
C30_LdiffNotGated ==
    [][/\ \A w \in 1..Len(workers) :
            LdiffIteration(w) =>
                /\ session_file' = session_file
                /\ entries' = entries
                /\ io_faults' = io_faults
       /\ (opts'.do_ldiff /\ RunOver' /\ workers' # <<>>) =>
            \A a \in Accounts : calls'[a].ldiff_export # "none"
      ]_vars

-----------------------------------------------------------------------------
(* Claims on SpecTypes: the order of the LDIFF operations of an account *)

CallsOfPass(at) ==
    CASE at = "ldiff" -> {"ldiff_export", "ldiff_import"}
      [] at = "full_export" -> {"export"}
      [] at = "full_import" -> {"import"}
      [] at = "incr_export" -> {"incr_export"}
      [] at = "incr_import" -> {"incr_import"}
      [] OTHER -> {}

\* C32: within one run no external call is issued twice for an account and
\* a migration type: a worker enters an iteration of a pass only for an
\* account that has had no call of that pass in the run, and the outcome of
\* a call that was issued, a failed one included, stays as it is until the
\* run is over and the next one starts, or the process is killed
C32_NoRetry ==
    [][/\ \A w \in 1..Len(workers) : \A op \in CallsOfPass(workers[w].at) :
              calls[Current(w)][op] = "none"
       /\ \A a \in Accounts : \A op \in DOMAIN calls[a] :
              calls[a][op] # "none" =>
                 \/ calls'[a][op] = calls[a][op]
                 \/ calls' = NoCalls /\ (RunOver \/ workers' = <<>>)
      ]_vars

\* a run over in which the full export of an account was called once and
\* failed, and its import was not called
C32_Witness ==
    /\ workers # <<>>
    /\ RunOver
    /\ opts.do_full
    /\ \E w \in 1..Len(workers) :
        /\ workers[w].at = "exit"
        /\ \E a \in Range(workers[w].accounts) :
            /\ calls[a].export = "fail"
            /\ calls[a].import = "none"

(***************************************************************************)
(* Claims on SpecTypes: when the cutover command is run                    *)
(***************************************************************************)
\* the cutover command is run for account a in this step
CutoverRuns(a) == cutover'[a] # cutover[a]

\* C33: the cutover command is run for an account only by the incremental
\* import iteration of that account, in the step in which its upload
\* succeeds or its archive has size 0, once per step; the account has had no
\* incremental import call and no cutover in the run before (its
\* is_incr_migrated is still False) and has the flag set afterwards, the flag
\* stays set until the run ends, and an account whose incremental import
\* failed has no cutover in the rest of the run; no LDIFF or Full iteration
\* runs a cutover
C33_CutoverOrder ==
    [][\A a \in Accounts :
          /\ CutoverRuns(a) =>
                /\ cutover'[a] = cutover[a] + 1
                /\ \E w \in 1..Len(workers) :
                      /\ workers[w].at = "incr_import"
                      /\ Current(w) = a
                      /\ workers'[w] # workers[w]
                      /\ \/ calls'[a].incr_import = "ok"
                         \/ ZeroByteImport(w, a) /\ calls'[a].incr_import = "none"
                /\ calls[a].incr_import = "none"
                /\ ~acct[a].is_incr_migrated
                /\ acct'[a].is_incr_migrated
          /\ acct[a].is_incr_migrated =>
                \/ acct'[a].is_incr_migrated
                \/ calls' = NoCalls /\ (RunOver \/ workers' = <<>>)
          /\ calls[a].incr_import = "fail" \/ calls'[a].incr_import = "fail" =>
                ~CutoverRuns(a)
      ]_vars

\* a run of all three types over in which the cutover was run for an
\* account whose upload succeeded
C33_Witness ==
    /\ workers # <<>>
    /\ RunOver
    /\ opts.do_full /\ opts.do_incr
    /\ \E a \in Accounts :
        /\ calls[a].import = "ok"
        /\ calls[a].incr_import = "ok"
        /\ cutover[a] = 1
        /\ acct[a].is_incr_migrated

(***************************************************************************)
(* Claims on SpecAppend: the scope of the ledger mutex                     *)
(***************************************************************************)
\* the thread that holds the mutex can take its next step
HolderCanStep ==
    IF lock = ReaderId
    THEN ENABLED (RRead \/ RRelease)
    ELSE \E w \in Writers :
            /\ lock = w
            /\ ENABLED (AOpen(w) \/ AWrite(w) \/ AFlush(w) \/ ARelease(w))

\* C34: the ledger mutex is held exactly by a thread that is inside one
\* record_session or one check_session, between its acquire and its
\* release: a worker whose external command runs, a worker before or after
\* its call, and a worker whose append or read failed do not hold it; the
\* holder can always take its next step towards the release, and a thread
\* that waits for the mutex can acquire it as soon as it is free, however
\* many workers are in an external command
C34_MutexScope ==
    /\ \A w \in Writers :
          /\ lock = w <=> writers[w].pc \in {"open", "write", "flush", "release"}
          /\ writers[w].pc \in {"idle", "transfer", "acquire", "done"} => lock # w
          /\ writers[w].pc = "acquire" /\ lock = 0 => ENABLED AAcquire(w)
    /\ lock = ReaderId <=> reader.pc \in {"read", "release"}
    /\ reader.pc = "acquire" /\ lock = 0 => ENABLED RAcquire
    /\ lock # 0 => HolderCanStep

\* one worker is in its external command, the append of another has failed
\* and its call has returned, and the reader holds the mutex
C34_Witness ==
    /\ lock = ReaderId
    /\ \E w, v \in Writers :
        /\ writers[w].pc = "transfer"
        /\ writers[v].pc = "done"
        /\ writers[v].failed

(***************************************************************************)
(* Claims on SpecVerify: a command that cannot be executed                 *)
(***************************************************************************)
\* the operation has run _execute_command and subprocess.run raised
NotExecutable == curl.ran /\ ~curl.launched

\* C35: an export or import whose external command cannot be executed at
\* all does not raise: it returns False, its phase flag is False, and no
\* ledger entry is appended for the phase.
C35_EnvironmentErrors ==
    (NotExecutable /\ curl.pc \in {"returned", "done"}) =>
        /\ curl.reported = "False"
        /\ ~curl.flag
        /\ ~curl.recorded

\* the same for the calls whose log is written: False is returned, the flag
\* is False and nothing is recorded; and no call whose command cannot be
\* executed reports success or is recorded unless the flag was set before
EnvironmentErrorWithLog ==
    (NotExecutable /\ curl.pc \in {"returned", "done"}) =>
        /\ curl.reported # "True"
        /\ curl.reported = "False" => ~curl.flag /\ ~curl.recorded

(***************************************************************************)
(* Claims on Spec: how many entries of a full phase an account has         *)
(***************************************************************************)
\* the number of entries of the ledger es for account a and phase tag
EntryCount(es, a, tag) ==
    Cardinality({n \in 1..Len(es) :
                    es[n][1] = Mail(a) /\ StartsWith(PhaseTag(es[n][2]), tag)})

IsEntry(n, a, tag) ==
    entries[n][1] = Mail(a) /\ StartsWith(PhaseTag(entries[n][2]), tag)

\* every FULL-IMPORT entry of account a has a FULL-EXPORT entry of a before it
ExportEntryFirst(a) ==
    \A n \in 1..Len(entries) :
        IsEntry(n, a, FULL_IMPORT) =>
            \E m \in 1..(n - 1) : IsEntry(m, a, FULL_EXPORT)

\* C37 as stated: in every reachable ledger an account that has a FULL-IMPORT
\* entry has a FULL-EXPORT entry earlier in the ledger.
C37_PhaseOrderAsStated == \A a \in Accounts : ExportEntryFirst(a)

\* C37: in every reachable ledger an account that has a FULL-IMPORT entry
\* has a FULL-EXPORT entry earlier in the ledger, unless an operation on the
\* ledger has failed; and also then the external full export and the
\* external full import of the account have both reported success
C37_PhaseOrder ==
    \A a \in Accounts :
        ~ExportEntryFirst(a) =>
            /\ io_faults >= 1
            /\ ever_ok[a].export
            /\ ever_ok[a].import

\* no operation on the ledger has failed, and the ledger holds the
\* FULL-EXPORT entry of an account followed by its FULL-IMPORT entry
C37_Witness ==
    /\ io_faults = 0
    /\ \E a \in Accounts : \E m, n \in 1..Len(entries) :
        /\ m < n
        /\ IsEntry(m, a, FULL_EXPORT)
        /\ IsEntry(n, a, FULL_IMPORT)

(***************************************************************************)
(* Claims on SpecWeb: the status after a run that returned                 *)
(***************************************************************************)
\* background run r takes a step after its run_migration has returned
StepsAfterReturn(r) ==
    /\ r \in DOMAIN web'.runs
    /\ web.runs[r].pc \in {"returned", "completed"}
    /\ web'.runs[r].pc # web.runs[r].pc

\* C38: when the call of run_migration of a background run has returned
\* without raising, the run sets the status to 'completed' and in no later
\* step sets it to 'error'.
C38_CompletedStays ==
    [][\A r \in WebRuns :
          StepsAfterReturn(r) =>
              /\ web.runs[r].pc = "returned" => web'.status = "completed"
              /\ web'.status # "error"
      ]_vars

\* the step a background run takes when its run_migration has returned sets
\* the status to 'completed'
ReturnSetsCompleted ==
    [][\A r \in WebRuns :
          (StepsAfterReturn(r) /\ web.runs[r].pc = "returned") =>
              web'.status = "completed"
      ]_vars

====
